---- MODULE Spec2Model ----
(***************************************************************************)
(* NeuroFlow: the schedule generators and the dashboard state around them. *)
(*                                                                         *)
(* Part A models DashboardView of src/unnamed/part_001: generateSchedule   *)
(* (one action per branch of its sweep loop), the schedule memo, the day   *)
(* selector and handleAdjustGoal.                                          *)
(***************************************************************************)
EXTENDS Integers, Sequences, FiniteSets, TLC

\* ------------------------------------------------------------------------
\* Bounds of the model
\* ------------------------------------------------------------------------
MaxEvents == 2      \* length of the calendarEvents prop
NumDays == 2        \* entries of the days array that are modelled
MaxOps == 2         \* user operations (day selections, goal adjustments) per run

\* ------------------------------------------------------------------------
\* Small helpers
\* ------------------------------------------------------------------------
Min(a, b) == IF a <= b THEN a ELSE b

Max(a, b) == IF a >= b THEN a ELSE b

Abs(a) == IF a < 0 THEN 0 - a ELSE a

\* Math.ceil(n / d) for n >= 0, d > 0
CeilDiv(n, d) == (n + d - 1) \div d

Null == "null"

Undefined == "undefined"

\* the null of activeItemIndex (part_002), whose indices are counted from 1
NoItem == 0

\* ------------------------------------------------------------------------
\* Inputs: the props handed to DashboardView
\* ------------------------------------------------------------------------
Clock(h, m, p) == [hour |-> h, minute |-> m, period |-> p]

StartTimes == {Clock(8, 0, "AM"), Clock(1, 0, "PM")}

EndTimes == {Clock(1, 10, "PM"), Clock(6, 0, "PM")}

GoalValues == {0, 1, 2, 7}

\* "Siesta" is a name the lookup table does not have
PeakWindows == {"Morning", "Siesta"}

\* <<shortBreak, longBreak>> as set by the two sliders of the break settings
BreakSettings == {<<5, 30>>, <<10, 60>>}

Days == 1..NumDays

Event(s, d, sh, sm, eh, em, dur) ==
    [summary |-> s, date |-> d, startTime |-> <<sh, sm>>, endTime |-> <<eh, em>>,
     durationMinutes |-> dur]

EventPool ==
    << Event("Standup", 1, 10, 0, 11, 0, 60),
       Event("Client call", 1, 13, 0, 14, 0, 60),
       Event("Sync", 1, 13, 5, 13, 10, 5),
       Event("Ping", 1, 12, 0, 12, 0, 0),
       Event("Retro", 2, 13, 20, 13, 50, 30) >>

\* the pool events with index in S, latest pool index first (an unsorted import)
RECURSIVE ListOf(_)
ListOf(S) ==
    IF S = {} THEN <<>>
    ELSE LET i == CHOOSE x \in S : \A y \in S : x >= y
         IN  <<EventPool[i]>> \o ListOf(S \ {i})

EventLists(n) ==
    {ListOf(S) : S \in {T \in SUBSET (1..Len(EventPool)) : Cardinality(T) <= n}}

VARIABLES
    startTime, endTime, focusGoal, peakWindow, shortBreak, longBreak, calendarEvents,
    selectedDayIndex, statsMode, completedSessions, activeSessionId,
    manualAdjustment, newSessionIds,
    schedule, run, pc, pendingNew, ops, memo,
    settings, activeItemIndex, timeLeft, isPaused, completedIds,
    isRunning, sessionTimeLeft,
    session,
    dbSettings, dbCalendar, lastSaved, isCalendarDirty, saving

props == <<startTime, endTime, focusGoal, peakWindow, shortBreak, longBreak, calendarEvents>>

vars == <<startTime, endTime, focusGoal, peakWindow, shortBreak, longBreak, calendarEvents,
          selectedDayIndex, statsMode, completedSessions, activeSessionId,
          manualAdjustment, newSessionIds,
          schedule, run, pc, pendingNew, ops, memo,
          settings, activeItemIndex, timeLeft, isPaused, completedIds,
          isRunning, sessionTimeLeft, session,
          dbSettings, dbCalendar, lastSaved, isCalendarDirty, saving>>

\* state of the part_001 dashboard only
viewA == <<statsMode, completedSessions, activeSessionId, manualAdjustment, newSessionIds,
           pendingNew, memo, ops>>

\* state of the part_002 dashboard only
viewB == <<settings, activeItemIndex, timeLeft, isPaused, completedIds>>

\* state of the SessionTimer instances of part_001, by block id
viewT == <<isRunning, sessionTimeLeft>>

\* the settings a voice session of AIPlanner was started with
viewP == <<session>>

\* the store of part_003 and the bookkeeping of its App around it
viewS == <<dbSettings, dbCalendar, lastSaved, isCalendarDirty, saving>>

\* everything outside the two dashboards' own state
rest == <<viewT, viewP, viewS>>

\* null where part_003 has a settings object (lastSaved, the stored settings)
NoSettings == [none |-> TRUE]

\* null where part_003 has a list of events (allEvents, the stored calendar)
NoCalendar == [none |-> TRUE]

\* no call of handleSaveAll is waiting for the store
NoSave == <<>>

\* sessionRef.current of AIPlanner while no voice session is open
NoSession == [open |-> FALSE]

\* no timer started, no voice session, nothing loaded or saved
RestDefaults ==
    /\ isRunning = <<>>
    /\ sessionTimeLeft = <<>>
    /\ session = NoSession
    /\ dbSettings = NoSettings
    /\ dbCalendar = NoCalendar
    /\ lastSaved = NoSettings
    /\ isCalendarDirty = FALSE
    /\ saving = NoSave

\* ------------------------------------------------------------------------
\* generateSchedule (part_001): pure helpers
\* ------------------------------------------------------------------------
\* toMinutes without the "12 AM is hour 0" rule
toMinutesNoMidnight(h, m, p) ==
    LET hours == IF p = "PM" /\ h # 12 THEN h + 12 ELSE h
    IN  hours * 60 + m

toMinutes(h, m, p) ==
    LET hours == IF p = "PM" /\ h # 12 THEN h + 12
                 ELSE IF p = "AM" /\ h = 12 THEN 0
                 ELSE h
    IN  hours * 60 + m

\* "HH:mm" as the pair <<HH, mm>>
formatTime(mins) == <<mins \div 60, mins % 60>>

\* the start minute a rendered "HH:mm" stands for
ParseHHmm(t) == t[1] * 60 + t[2]

WithMins(e) ==
    [summary |-> e.summary, date |-> e.date, startTime |-> e.startTime,
     endTime |-> e.endTime, durationMinutes |-> e.durationMinutes,
     startMins |-> ParseHHmm(e.startTime), endMins |-> ParseHHmm(e.endTime)]

\* Array.prototype.sort is stable: equal starts keep their input order
RECURSIVE InsertByStart(_, _)
InsertByStart(s, e) ==
    IF s = <<>> THEN <<e>>
    ELSE IF Head(s).startMins <= e.startMins THEN <<Head(s)>> \o InsertByStart(Tail(s), e)
    ELSE <<e>> \o s

RECURSIVE SortByStart(_)
SortByStart(s) ==
    IF s = <<>> THEN <<>>
    ELSE InsertByStart(SortByStart(SubSeq(s, 1, Len(s) - 1)), s[Len(s)])

dayEventsOf(events, targetDay) ==
    SortByStart(SelectSeq([i \in 1..Len(events) |-> WithMins(events[i])],
                          LAMBDA e : e.date = targetDay))

peakRanges(w) ==
    CASE w = "Morning" -> <<480, 720>>
      [] w = "Afternoon" -> <<840, 1020>>
      [] w = "Evening" -> <<1080, 1260>>
      [] w = "Late Night" -> <<1260, 1440>>
      [] OTHER -> <<840, 1020>>

eventColors == <<"bg-[#A9C5D3]", "bg-[#FADCD5]", "bg-[#D9CCE8]", "bg-[#F5D5B8]">>

isBreakType(t) == t \in {"break", "hobby", "lunch", "wellness"}

\* effectiveFocusGoal dropping the per-date adjustment
effectiveFocusGoalNoAdj(overrideGoal, fg, currentAdj) ==
    IF overrideGoal # Undefined THEN overrideGoal ELSE fg

effectiveFocusGoal(overrideGoal, fg, currentAdj) ==
    IF overrideGoal # Undefined THEN overrideGoal ELSE fg + currentAdj

\* InitRun with the colour index kept outside the call, so that it carries over
\* from the schedule rendered before
InitRunSharedColor(targetDay, overrideGoal, fg, adj, newIds) ==
    [ targetDay |-> targetDay,
      items |-> <<>>,
      dayStartMins |-> toMinutes(startTime.hour, startTime.minute, startTime.period),
      dayEndMins |-> toMinutes(endTime.hour, endTime.minute, endTime.period),
      dayEvents |-> dayEventsOf(calendarEvents, targetDay),
      currentTime |-> toMinutes(startTime.hour, startTime.minute, startTime.period),
      currentAdj |-> adj[targetDay],
      fg |-> fg,
      focusRemaining |-> effectiveFocusGoal(overrideGoal, fg, adj[targetDay]) * 60,
      lastType |-> Null,
      hasLongBreakAnchor |-> FALSE,
      peak |-> peakRanges(peakWindow),
      colorIdx |-> Len(schedule),
      newIds |-> newIds ]

\* the locals of one generateSchedule call, before the loop
InitRun(targetDay, overrideGoal, fg, adj, newIds) ==
    [ targetDay |-> targetDay,
      items |-> <<>>,
      dayStartMins |-> toMinutes(startTime.hour, startTime.minute, startTime.period),
      dayEndMins |-> toMinutes(endTime.hour, endTime.minute, endTime.period),
      dayEvents |-> dayEventsOf(calendarEvents, targetDay),
      currentTime |-> toMinutes(startTime.hour, startTime.minute, startTime.period),
      currentAdj |-> adj[targetDay],
      fg |-> fg,
      focusRemaining |-> effectiveFocusGoal(overrideGoal, fg, adj[targetDay]) * 60,
      lastType |-> Null,
      hasLongBreakAnchor |-> FALSE,
      peak |-> peakRanges(peakWindow),
      colorIdx |-> 0,
      newIds |-> newIds ]

\* addSession reading the cursor for the displayed start after advancing it
addSessionLate(r, type, label, duration, color) ==
    IF duration <= 0 THEN r
    ELSE LET id == <<r.targetDay, type, r.currentTime>>
             item == [id |-> id, type |-> type, label |-> label, duration |-> duration,
                      color |-> IF color # Undefined THEN color
                                ELSE eventColors[(r.colorIdx % Len(eventColors)) + 1],
                      startTime |-> formatTime(r.currentTime + duration),
                      isNew |-> id \in r.newIds]
         IN  [r EXCEPT !.items = Append(@, item),
                       !.colorIdx = IF color # Undefined THEN @ ELSE @ + 1,
                       !.currentTime = @ + duration,
                       !.lastType = type]

addSession(r, type, label, duration, color) ==
    IF duration <= 0 THEN r
    ELSE LET id == <<r.targetDay, type, r.currentTime>>
             item == [id |-> id, type |-> type, label |-> label, duration |-> duration,
                      color |-> IF color # Undefined THEN color
                                ELSE eventColors[(r.colorIdx % Len(eventColors)) + 1],
                      startTime |-> formatTime(r.currentTime),
                      isNew |-> id \in r.newIds]
         IN  [r EXCEPT !.items = Append(@, item),
                       !.colorIdx = IF color # Undefined THEN @ ELSE @ + 1,
                       !.currentTime = @ + duration,
                       !.lastType = type]

\* index in dayEvents of dayEvents.find(e => e.startMins >= currentTime), 0 if none
nextMeetingIdx(r) ==
    LET hits == {i \in 1..Len(r.dayEvents) : r.dayEvents[i].startMins >= r.currentTime}
    IN  IF hits = {} THEN 0 ELSE CHOOSE i \in hits : \A j \in hits : i <= j

gapOf(r) ==
    IF nextMeetingIdx(r) # 0 THEN r.dayEvents[nextMeetingIdx(r)].startMins - r.currentTime
    ELSE r.dayEndMins - r.currentTime

focusDurOf(r) ==
    LET inPeak == r.currentTime >= r.peak[1] /\ r.currentTime < r.peak[2]
        gap == gapOf(r)
    IN  IF inPeak
        THEN IF r.currentAdj > 0
             THEN Min(IF r.focusRemaining >= 60 /\ (r.fg + r.currentAdj - r.fg) < 1
                      THEN 60 ELSE 45, gap)
             ELSE Min(90, gap)
        ELSE Min(45, gap)

\* Branch emitting a focus block only while the remaining focus minutes still
\* fit into the gap
BranchFitsGap(r) ==
    IF ~(r.currentTime < r.dayEndMins) THEN "exit"
    ELSE IF /\ r.currentTime >= 780 /\ r.currentTime < 840 /\ ~r.hasLongBreakAnchor
            /\ ~isBreakType(IF r.lastType = Null THEN "" ELSE r.lastType)
         THEN "lunch"
    ELSE IF nextMeetingIdx(r) # 0 /\ r.dayEvents[nextMeetingIdx(r)].startMins = r.currentTime
         THEN "meeting"
    ELSE IF gapOf(r) > 0
         THEN IF r.lastType \in {"focus", "meeting", Null} THEN "break"
              ELSE IF r.focusRemaining > 0 /\ r.focusRemaining <= gapOf(r) THEN "focus"
              ELSE "hobby"
    ELSE "jump"

\* Branch without the "no block emitted yet" case of the break test
BranchNoLeadBreak(r) ==
    IF ~(r.currentTime < r.dayEndMins) THEN "exit"
    ELSE IF /\ r.currentTime >= 780 /\ r.currentTime < 840 /\ ~r.hasLongBreakAnchor
            /\ ~isBreakType(IF r.lastType = Null THEN "" ELSE r.lastType)
         THEN "lunch"
    ELSE IF nextMeetingIdx(r) # 0 /\ r.dayEvents[nextMeetingIdx(r)].startMins = r.currentTime
         THEN "meeting"
    ELSE IF gapOf(r) > 0
         THEN IF r.lastType \in {"focus", "meeting"} THEN "break"
              ELSE IF r.focusRemaining > 0 THEN "focus"
              ELSE "hobby"
    ELSE "jump"

\* Branch taking the lunch anchor whatever the last block was
BranchLunchAfterRest(r) ==
    IF ~(r.currentTime < r.dayEndMins) THEN "exit"
    ELSE IF r.currentTime >= 780 /\ r.currentTime < 840 /\ ~r.hasLongBreakAnchor
         THEN "lunch"
    ELSE IF nextMeetingIdx(r) # 0 /\ r.dayEvents[nextMeetingIdx(r)].startMins = r.currentTime
         THEN "meeting"
    ELSE IF gapOf(r) > 0
         THEN IF r.lastType \in {"focus", "meeting", Null} THEN "break"
              ELSE IF r.focusRemaining > 0 THEN "focus"
              ELSE "hobby"
    ELSE "jump"

\* Branch resting only after a meeting or at the start, not after focus
BranchFocusRun(r) ==
    IF ~(r.currentTime < r.dayEndMins) THEN "exit"
    ELSE IF /\ r.currentTime >= 780 /\ r.currentTime < 840 /\ ~r.hasLongBreakAnchor
            /\ ~isBreakType(IF r.lastType = Null THEN "" ELSE r.lastType)
         THEN "lunch"
    ELSE IF nextMeetingIdx(r) # 0 /\ r.dayEvents[nextMeetingIdx(r)].startMins = r.currentTime
         THEN "meeting"
    ELSE IF gapOf(r) > 0
         THEN IF r.lastType \in {"meeting", Null} THEN "break"
              ELSE IF r.focusRemaining > 0 THEN "focus"
              ELSE "hobby"
    ELSE "jump"

\* which branch of the loop body the next iteration takes
Branch(r) ==
    IF ~(r.currentTime < r.dayEndMins) THEN "exit"
    ELSE IF /\ r.currentTime >= 780 /\ r.currentTime < 840 /\ ~r.hasLongBreakAnchor
            /\ ~isBreakType(IF r.lastType = Null THEN "" ELSE r.lastType)
         THEN "lunch"
    ELSE IF nextMeetingIdx(r) # 0 /\ r.dayEvents[nextMeetingIdx(r)].startMins = r.currentTime
         THEN "meeting"
    ELSE IF gapOf(r) > 0
         THEN IF r.lastType \in {"focus", "meeting", Null} THEN "break"
              ELSE IF r.focusRemaining > 0 THEN "focus"
              ELSE "hobby"
    ELSE "jump"

lunchStep(r) ==
    [addSession(r, "break", "Lunch Break", longBreak, Undefined)
        EXCEPT !.hasLongBreakAnchor = TRUE]

\* meetingStep leaving the event in dayEvents
meetingStepKeepEvent(r) ==
    LET nextMeeting == r.dayEvents[nextMeetingIdx(r)]
    IN  addSession(r, "meeting", nextMeeting.summary, nextMeeting.durationMinutes, Undefined)

meetingStep(r) ==
    LET nextMeeting == r.dayEvents[nextMeetingIdx(r)]
    IN  [addSession(r, "meeting", nextMeeting.summary, nextMeeting.durationMinutes, Undefined)
            EXCEPT !.dayEvents = Tail(@)]

\* breakStep always taking the configured short break
breakStepShort(r) ==
    LET gap == gapOf(r)
        breakDur == Min(shortBreak, gap)
    IN  addSession(r, "break", IF breakDur >= 45 THEN "Wellness Break" ELSE "Short break",
                   breakDur, Undefined)

breakStep(r) ==
    LET gap == gapOf(r)
        breakDur == Min(IF gap >= 45 THEN 45 ELSE shortBreak, gap)
    IN  addSession(r, "break", IF breakDur >= 45 THEN "Wellness Break" ELSE "Short break",
                   breakDur, Undefined)

\* focusStep without the cap by the remaining focus minutes
focusStepUncapped(r) ==
    LET inPeak == r.currentTime >= r.peak[1] /\ r.currentTime < r.peak[2]
        focusDur == focusDurOf(r)
        isPeak == inPeak /\ focusDur >= 45
    IN  [addSession(r, "focus", IF isPeak THEN "Peak Focus Session" ELSE "Standard Focus",
                    focusDur, IF isPeak THEN "bg-[#FADCD5]" ELSE "bg-white")
            EXCEPT !.focusRemaining = @ - focusDur]

focusStep(r) ==
    LET inPeak == r.currentTime >= r.peak[1] /\ r.currentTime < r.peak[2]
        focusDur == Min(focusDurOf(r), r.focusRemaining)
        isPeak == inPeak /\ focusDur >= 45
    IN  [addSession(r, "focus", IF isPeak THEN "Peak Focus Session" ELSE "Standard Focus",
                    focusDur, IF isPeak THEN "bg-[#FADCD5]" ELSE "bg-white")
            EXCEPT !.focusRemaining = @ - focusDur]

hobbyStep(r) ==
    addSession(r, "hobby", "Creative Hobby Block", Min(gapOf(r), 60), "bg-[#E1EED9]")

jumpStep(r) ==
    IF nextMeetingIdx(r) # 0
    THEN [r EXCEPT !.currentTime = r.dayEvents[nextMeetingIdx(r)].endMins]
    ELSE [r EXCEPT !.currentTime = r.dayEndMins]

\* one iteration of while (currentTime < dayEndMins)
sweepStep(r) ==
    CASE Branch(r) = "lunch" -> lunchStep(r)
      [] Branch(r) = "meeting" -> meetingStep(r)
      [] Branch(r) = "break" -> breakStep(r)
      [] Branch(r) = "focus" -> focusStep(r)
      [] Branch(r) = "hobby" -> hobbyStep(r)
      [] Branch(r) = "jump" -> jumpStep(r)
      [] OTHER -> r

RECURSIVE sweep(_)
sweep(r) == IF Branch(r) = "exit" THEN r.items ELSE sweep(sweepStep(r))

\* generateSchedule(targetDay, overrideGoal) run to completion under a given
\* focus goal, adjustment map and new-session set
generateSchedule(targetDay, overrideGoal, fg, adj, newIds) ==
    sweep(InitRun(targetDay, overrideGoal, fg, adj, newIds))

\* ------------------------------------------------------------------------
\* DashboardView (part_001): state and handlers
\* ------------------------------------------------------------------------
activeDay == selectedDayIndex

\* memo records one earlier call of generateSchedule: its inputs and its result
NoMemo == [day |-> 0]

\* focusMinsOf counting the focus blocks only
focusMinsFocusOnly(s) ==
    LET F[i \in 0..Len(s)] ==
            IF i = 0 THEN 0
            ELSE (IF s[i].type = "focus" THEN s[i].duration ELSE 0) + F[i - 1]
    IN  F[Len(s)]

\* calcForSchedule(s).focusMins
RECURSIVE focusMinsOf(_)
focusMinsOf(s) ==
    IF s = <<>> THEN 0
    ELSE (IF Head(s).type \in {"focus", "meeting"} THEN Head(s).duration ELSE 0)
         + focusMinsOf(Tail(s))

goalDiff ==
    IF statsMode # "daily" THEN Null
    ELSE LET diff == focusMinsOf(schedule) - focusGoal * 60
         IN  IF Abs(diff) < 15 THEN "match"
             ELSE IF diff < 0 THEN "under" ELSE "over"

\* schedule.find(item => !completedSessions.has(item.id) && item.type === 'focus')
firstNewOf(s, done) ==
    LET hits == {i \in 1..Len(s) : s[i].id \notin done /\ s[i].type = "focus"}
    IN  IF hits = {} THEN {} ELSE {s[CHOOSE i \in hits : \A j \in hits : i <= j].id}

\* the settings of the part_002 dashboard when nothing is saved
DefaultSettings == [shortBreakDuration |-> 15, hobbyBreakDuration |-> 45, isMuted |-> FALSE]

Init ==
    /\ startTime \in StartTimes
    /\ endTime \in EndTimes
    /\ focusGoal \in GoalValues
    /\ peakWindow \in PeakWindows
    /\ \E bs \in BreakSettings : shortBreak = bs[1] /\ longBreak = bs[2]
    /\ calendarEvents \in EventLists(MaxEvents)
    /\ selectedDayIndex = 1
    /\ statsMode = "daily"
    /\ completedSessions = {}
    /\ activeSessionId = Null
    /\ manualAdjustment = [d \in Days |-> 0]
    /\ newSessionIds = {}
    /\ schedule = <<>>
    /\ pendingNew = {}
    /\ ops = 0
    /\ memo = NoMemo
    /\ settings = DefaultSettings
    /\ activeItemIndex = NoItem
    /\ timeLeft = 0
    /\ isPaused = TRUE
    /\ completedIds = {}
    /\ RestDefaults
    /\ pc = "sweep"
    /\ run = InitRun(1, Undefined, focusGoal, manualAdjustment, newSessionIds)

\* the loop body of generateSchedule, one action per branch
LunchAnchor ==
    /\ pc = "sweep" /\ Branch(run) = "lunch"
    /\ run' = lunchStep(run)
    /\ UNCHANGED <<props, selectedDayIndex, statsMode, completedSessions, activeSessionId,
                   manualAdjustment, newSessionIds, schedule, pc, pendingNew, ops, memo, viewB, rest>>

MeetingStep ==
    /\ pc = "sweep" /\ Branch(run) = "meeting"
    /\ run' = meetingStep(run)
    /\ UNCHANGED <<props, selectedDayIndex, statsMode, completedSessions, activeSessionId,
                   manualAdjustment, newSessionIds, schedule, pc, pendingNew, ops, memo, viewB, rest>>

BreakStep ==
    /\ pc = "sweep" /\ Branch(run) = "break"
    /\ run' = breakStep(run)
    /\ UNCHANGED <<props, selectedDayIndex, statsMode, completedSessions, activeSessionId,
                   manualAdjustment, newSessionIds, schedule, pc, pendingNew, ops, memo, viewB, rest>>

FocusStep ==
    /\ pc = "sweep" /\ Branch(run) = "focus"
    /\ run' = focusStep(run)
    /\ UNCHANGED <<props, selectedDayIndex, statsMode, completedSessions, activeSessionId,
                   manualAdjustment, newSessionIds, schedule, pc, pendingNew, ops, memo, viewB, rest>>

HobbyStep ==
    /\ pc = "sweep" /\ Branch(run) = "hobby"
    /\ run' = hobbyStep(run)
    /\ UNCHANGED <<props, selectedDayIndex, statsMode, completedSessions, activeSessionId,
                   manualAdjustment, newSessionIds, schedule, pc, pendingNew, ops, memo, viewB, rest>>

\* loop exit, "return items", and the useMemo storing the result as schedule
Return ==
    /\ pc = "sweep" /\ Branch(run) = "exit"
    /\ schedule' = run.items
    /\ pc' = "idle"
    /\ \/ memo' = memo
       \/ /\ memo = NoMemo
          /\ memo' = [day |-> run.targetDay, adj |-> manualAdjustment,
                      newIds |-> newSessionIds, out |-> run.items]
    /\ UNCHANGED <<props, selectedDayIndex, statsMode, completedSessions, activeSessionId,
                   manualAdjustment, newSessionIds, run, pendingNew, ops, viewB, rest>>

\* date selector button: onClick of days.map((d, i) => ...)
SelectDay(i) ==
    /\ pc = "idle" /\ ops < MaxOps
    /\ selectedDayIndex' = i
    /\ statsMode' = "daily"
    /\ activeSessionId' = Null
    /\ ops' = ops + 1
    /\ IF i # selectedDayIndex
       THEN /\ pc' = "sweep"
            /\ run' = InitRun(i, Undefined, focusGoal, manualAdjustment, newSessionIds)
       ELSE UNCHANGED <<pc, run>>
    /\ UNCHANGED <<props, completedSessions, manualAdjustment, newSessionIds, schedule,
                   pendingNew, memo, viewB, rest>>

\* adjustmentOf always adding a single hour
adjustmentOfOneHour(direction, diffMins) ==
    IF direction = "add" THEN 1 ELSE 0 - CeilDiv(diffMins, 60)

adjustmentOf(direction, diffMins) ==
    IF direction = "add"
    THEN IF diffMins < 60 THEN 1 ELSE CeilDiv(diffMins + 30, 60)
    ELSE 0 - CeilDiv(diffMins, 60)

\* the Add Focus / Reduce Focus button, shown when goalDiff is under / over
handleAdjustGoal(direction) ==
    /\ pc = "idle" /\ ops < MaxOps
    /\ statsMode = "daily" /\ goalDiff \in {"under", "over"}
    /\ direction = IF goalDiff = "under" THEN "add" ELSE "reduce"
    /\ LET diffMins == Abs(focusMinsOf(schedule) - focusGoal * 60)
           newAdj == [manualAdjustment EXCEPT
                        ![activeDay] = @ + adjustmentOf(direction, diffMins)]
       IN  /\ manualAdjustment' = newAdj
           /\ run' = InitRun(activeDay, Undefined, focusGoal, newAdj, newSessionIds)
    /\ pendingNew' = IF direction = "add"
                     THEN pendingNew \cup firstNewOf(schedule, completedSessions)
                     ELSE pendingNew
    /\ pc' = "sweep"
    /\ ops' = ops + 1
    /\ UNCHANGED <<props, selectedDayIndex, statsMode, completedSessions, activeSessionId,
                   newSessionIds, schedule, memo, viewB, rest>>

\* the setTimeout callback of handleAdjustGoal('add')
NewSessionTimeout(id) ==
    /\ pc = "idle" /\ id \in pendingNew
    /\ pendingNew' = pendingNew \ {id}
    /\ newSessionIds' = newSessionIds \cup {id}
    /\ pc' = "sweep"
    /\ run' = InitRun(activeDay, Undefined, focusGoal, manualAdjustment, newSessionIds \cup {id})
    /\ UNCHANGED <<props, selectedDayIndex, statsMode, completedSessions, activeSessionId,
                   manualAdjustment, schedule, ops, memo, viewB, rest>>

Next ==
    \/ LunchAnchor
    \/ MeetingStep
    \/ BreakStep
    \/ FocusStep
    \/ HobbyStep
    \/ Return
    \/ \E i \in Days : SelectDay(i)
    \/ \E direction \in {"add", "reduce"} : handleAdjustGoal(direction)
    \/ \E id \in pendingNew : NewSessionTimeout(id)

Spec == Init /\ [][Next]_vars

\* the else branch of "if (gap > 0)" (jumpStep) is never taken: a meeting found
\* by find starts at or after the cursor, and one starting at the cursor is emitted
NoJump == pc = "sweep" => Branch(run) # "jump"

\* ------------------------------------------------------------------------
\* Vocabulary of the properties of generateSchedule (part_001)
\* ------------------------------------------------------------------------
DayStartMins == toMinutes(startTime.hour, startTime.minute, startTime.period)

DayEndMins == toMinutes(endTime.hour, endTime.minute, endTime.period)

StartOf(item) == ParseHHmm(item.startTime)

EndOf(item) == StartOf(item) + item.duration

Contiguous(s) == \A i \in 1..(Len(s) - 1) : EndOf(s[i]) = StartOf(s[i + 1])

RECURSIVE FocusTotal(_)
FocusTotal(s) ==
    IF s = <<>> THEN 0
    ELSE (IF Head(s).type = "focus" THEN Head(s).duration ELSE 0) + FocusTotal(Tail(s))

FocusCount(s) == Cardinality({i \in 1..Len(s) : s[i].type = "focus"})

Blocks(s) == [i \in 1..Len(s) |->
                [type |-> s[i].type, start |-> StartOf(s[i]), duration |-> s[i].duration]]

ActiveEvents == dayEventsOf(calendarEvents, activeDay)

\* the contract of the generator on the events of the target date
ValidInputs ==
    /\ DayStartMins < DayEndMins
    /\ shortBreak >= 1
    /\ \A i \in 1..Len(ActiveEvents) :
          /\ ActiveEvents[i].durationMinutes > 0
          /\ ActiveEvents[i].endMins = ActiveEvents[i].startMins + ActiveEvents[i].durationMinutes
          /\ ActiveEvents[i].startMins >= DayStartMins
          /\ ActiveEvents[i].endMins <= DayEndMins
    /\ \A i \in 1..Len(ActiveEvents) : \A j \in 1..Len(ActiveEvents) :
          i < j => ActiveEvents[i].endMins <= ActiveEvents[j].startMins

EffectiveGoalMins == (focusGoal + manualAdjustment[activeDay]) * 60

ZeroAdjustment == [d \in Days |-> 0]

\* C1: in the returned list every block starts at the minute the previous block
\* ends, and every block has a positive duration (starts strictly ascending)
C1_Contiguous ==
    (pc = "idle" /\ DayStartMins < DayEndMins /\ shortBreak >= 1) =>
        /\ Contiguous(schedule)
        /\ \A i \in 1..Len(schedule) : schedule[i].duration > 0

C1_Witness ==
    /\ pc = "idle" /\ Len(schedule) >= 4
    /\ Len(ActiveEvents) = 2
    /\ ActiveEvents[1].endMins > ActiveEvents[2].startMins
    /\ \E i \in 1..Len(schedule) : schedule[i].type = "meeting"
    /\ \E i \in 1..Len(schedule) : schedule[i].type = "focus"
    /\ manualAdjustment[activeDay] # 0

\* C2: for valid inputs every calendar event of the target date appears as exactly
\* one meeting block with the event's start, duration and summary
C2_EventsVerbatim ==
    (pc = "idle" /\ ValidInputs) =>
        \A k \in 1..Len(ActiveEvents) :
            Cardinality({i \in 1..Len(schedule) :
                            /\ schedule[i].type = "meeting"
                            /\ StartOf(schedule[i]) = ActiveEvents[k].startMins
                            /\ schedule[i].duration = ActiveEvents[k].durationMinutes
                            /\ schedule[i].label = ActiveEvents[k].summary}) = 1

\* C3: for valid inputs every emitted block lies within [dayStart, dayEnd]
C3_WithinDay ==
    (pc = "idle" /\ ValidInputs) =>
        \A i \in 1..Len(schedule) :
            StartOf(schedule[i]) >= DayStartMins /\ EndOf(schedule[i]) <= DayEndMins

\* C5 as stated: the focus minutes of a returned schedule never exceed the
\* effective goal (focusGoal + adjustment) * 60, and once the remaining-focus
\* counter is 0 an iteration of the loop adds no focus block
C5_FocusWithinGoal ==
    /\ [](pc = "idle" => FocusTotal(schedule) <= EffectiveGoalMins)
    /\ [][(pc = "sweep" /\ pc' = "sweep" /\ run.focusRemaining = 0)
            => FocusCount(run'.items) = FocusCount(run.items)]_vars

\* C5 amended: the focus minutes never exceed the effective goal clamped at 0,
\* and once the counter is 0 or below no iteration adds a focus block
C5_FocusWithinClampedGoal ==
    /\ [](pc = "idle" => FocusTotal(schedule) <= Max(0, EffectiveGoalMins))
    /\ [][(pc = "sweep" /\ pc' = "sweep" /\ run.focusRemaining <= 0)
            => FocusCount(run'.items) = FocusCount(run.items)]_vars

C5_Witness ==
    /\ pc = "idle"
    /\ EffectiveGoalMins > 0
    /\ FocusTotal(schedule) = EffectiveGoalMins
    /\ schedule[Len(schedule)].type = "hobby"

\* Scenario A: 08:00-18:00, no calendar events, 7-hour goal, Morning peak
ScenarioA ==
    /\ startTime = Clock(8, 0, "AM")
    /\ endTime = Clock(6, 0, "PM")
    /\ calendarEvents = <<>>
    /\ focusGoal = 7
    /\ peakWindow = "Morning"

\* focus at the odd positions and rest at the even ones (first = 1), or the
\* other way round (first = 0)
Alternates(s, first) ==
    \A i \in 1..Len(s) :
        IF i % 2 = first THEN s[i].type = "focus" ELSE isBreakType(s[i].type)

\* C6 as stated: in scenario A the first block is a Focus block at 480 of the
\* peak-cap duration and the blocks alternate Focus, rest, Focus, ...
C6_FirstBlockFocus ==
    (pc = "idle" /\ ScenarioA) =>
        /\ Len(schedule) >= 1
        /\ schedule[1].type = "focus"
        /\ StartOf(schedule[1]) = 480
        /\ schedule[1].duration = 90
        /\ Alternates(schedule, 1)

\* C6 amended: in scenario A the first block is a 45-minute Wellness Break at
\* 480, the second a Focus block at 525 of the peak-cap duration (90, or 45 when
\* the date has a positive adjustment), and the blocks alternate rest, Focus
C6_FirstBlockBreak ==
    (pc = "idle" /\ ScenarioA) =>
        /\ Len(schedule) >= 2
        /\ schedule[1].type = "break" /\ schedule[1].label = "Wellness Break"
        /\ StartOf(schedule[1]) = 480 /\ schedule[1].duration = 45
        /\ schedule[2].type = "focus" /\ StartOf(schedule[2]) = 525
        /\ schedule[2].duration = IF manualAdjustment[activeDay] > 0 THEN 45 ELSE 90
        /\ Alternates(schedule, 0)

C6_Witness == pc = "idle" /\ ScenarioA /\ Len(schedule) >= 4

\* C7 as stated: in scenario A without adjustment the focus blocks sum to 420
\* minutes and the last block ends at or before 1080
C7_GoalReached ==
    (pc = "idle" /\ ScenarioA /\ manualAdjustment[activeDay] = 0) =>
        /\ FocusTotal(schedule) = 420
        /\ Len(schedule) >= 1 /\ EndOf(schedule[Len(schedule)]) <= 1080

\* C7 amended: in scenario A without adjustment the focus blocks sum to 330
\* minutes and the last block ends at 1080
C7_GoalMissed ==
    (pc = "idle" /\ ScenarioA /\ manualAdjustment[activeDay] = 0) =>
        /\ FocusTotal(schedule) = 330
        /\ Len(schedule) >= 1 /\ EndOf(schedule[Len(schedule)]) = 1080

C7_Witness ==
    pc = "idle" /\ ScenarioA /\ manualAdjustment[activeDay] = 0 /\ FocusCount(schedule) = 6

\* the inputs of the latest call are those of the remembered call (the props
\* do not change during a run of the model)
SameInputsAsMemo ==
    /\ memo # NoMemo
    /\ memo.day = activeDay
    /\ memo.adj = manualAdjustment
    /\ memo.newIds = newSessionIds

C9_Monotone ==
    pc = "idle" =>
        \A g \in GoalValues :
            g > focusGoal =>
                FocusTotal(schedule) <=
                    FocusTotal(generateSchedule(activeDay, Undefined, g, manualAdjustment,
                                                newSessionIds))

C9_Witness ==
    /\ pc = "idle" /\ FocusTotal(schedule) > 0
    /\ \E g \in GoalValues :
          /\ g > focusGoal
          /\ FocusTotal(schedule) <
                FocusTotal(generateSchedule(activeDay, Undefined, g, manualAdjustment,
                                            newSessionIds))

DAY_START_LIMIT == 420

DAY_END_LIMIT == 1380

StartTimesB == {Clock(8, 0, "AM"), Clock(9, 0, "AM")}

EndTimesB == {Clock(9, 0, "AM"), Clock(6, 0, "PM")}

PeakWindowsB == {"Morning", "Afternoon"}

ShortBreakChoices == {5, 15}

HobbyBreakChoices == {45, 90}

EventPoolB ==
    << Event("Standup", 1, 11, 0, 12, 0, 60),
       Event("Client call", 1, 13, 0, 14, 0, 60),
       Event("Team Lunch", 1, 12, 30, 13, 0, 30),
       Event("Gym", 1, 9, 0, 10, 0, 60),
       Event("Retro", 2, 13, 20, 13, 50, 30) >>

RECURSIVE ListOfB(_)
ListOfB(S) ==
    IF S = {} THEN <<>>
    ELSE LET i == CHOOSE x \in S : \A y \in S : x >= y
         IN  <<EventPoolB[i]>> \o ListOfB(S \ {i})

EventListsB(n) ==
    {ListOfB(S) : S \in {T \in SUBSET (1..Len(EventPoolB)) : Cardinality(T) <= n}}

BREAK_TYPES == {"break", "lunch", "wellness", "hobby", "transition"}

\* formatMinutes without the "|| 12" of the hour
formatMinutesNoTwelve(m) ==
    LET hours == m \div 60
        mins == m % 60
        p == IF hours >= 12 THEN "pm" ELSE "am"
    IN  <<hours % 12, mins, p>>

\* "hh:mm am/pm" as the triple <<hh, mm, suffix>>
formatMinutes(m) ==
    LET hours == m \div 60
        mins == m % 60
        p == IF hours >= 12 THEN "pm" ELSE "am"
    IN  <<IF hours % 12 = 0 THEN 12 ELSE hours % 12, mins, p>>

WithMinsB(e) ==
    [summary |-> e.summary, date |-> e.date, startTime |-> e.startTime,
     endTime |-> e.endTime, durationMinutes |-> e.durationMinutes,
     startMins |-> ParseHHmm(e.startTime),
     endMins |-> ParseHHmm(e.startTime) + e.durationMinutes]

activeDayEventsOf(events, day) ==
    SortByStart(SelectSeq([i \in 1..Len(events) |-> WithMinsB(events[i])],
                          LAMBDA e : e.date = day))

\* summary.toLowerCase().includes(...) on the summaries of the event pool
getEventTypeFromSummary(summary) ==
    CASE summary \in {"Team Lunch"} -> "lunch"
      [] summary \in {"Gym"} -> "wellness"
      [] OTHER -> "meeting"

getTypeStyles(type) ==
    CASE type = "focus" -> [color |-> "bg-[#FEF1EE] border-[#FADCD5]", stripe |-> "bg-[#ED6A45]"]
      [] type = "meeting" -> [color |-> "bg-[#FEF6F0] border-[#FADCD5]", stripe |-> "bg-[#8E6043]"]
      [] type = "lunch" -> [color |-> "bg-blue-50 border-blue-100", stripe |-> "bg-blue-400"]
      [] type = "wellness" -> [color |-> "bg-green-50 border-green-100", stripe |-> "bg-green-400"]
      [] type = "hobby" -> [color |-> "bg-purple-50 border-purple-100", stripe |-> "bg-purple-400"]
      [] type = "break" -> [color |-> "bg-gray-50 border-gray-100", stripe |-> "bg-gray-200"]
      [] type = "transition" -> [color |-> "bg-gray-50 border-gray-100", stripe |-> "bg-gray-300"]
      [] OTHER -> [color |-> "bg-white border-gray-100", stripe |-> "bg-gray-400"]

RECURSIVE totalMeetingsMinutes(_)
totalMeetingsMinutes(evs) ==
    IF evs = <<>> THEN 0
    ELSE (IF getEventTypeFromSummary(Head(evs).summary) = "meeting"
          THEN Head(evs).durationMinutes ELSE 0) + totalMeetingsMinutes(Tail(evs))

peakRangesB(w) ==
    CASE w = "Morning" -> <<420, 720>>
      [] w = "Afternoon" -> <<720, 1020>>
      [] w = "Evening" -> <<1020, 1260>>
      [] w = "Late Night" -> <<1260, 1380>>
      [] OTHER -> <<420, 720>>

ScheduleItem(id, type, label, subLabel, start, duration) ==
    [id |-> id, type |-> type, label |-> label, subLabel |-> subLabel,
     startTime |-> formatMinutes(start), startTimeMins |-> start, duration |-> duration,
     color |-> getTypeStyles(type).color, stripeColor |-> getTypeStyles(type).stripe]

\* addItem without the rule for the first item
addItemKeepFirst(items, item) ==
    IF Len(items) = 0 THEN Append(items, item)
    ELSE LET last == items[Len(items)]
             isCurrentBreak == item.type \in BREAK_TYPES
             isLastBreak == last.type \in BREAK_TYPES
         IN  IF isCurrentBreak /\ isLastBreak
             THEN IF item.type = last.type
                  THEN [items EXCEPT ![Len(items)].duration = @ + item.duration]
                  ELSE items
             ELSE Append(items, item)

\* the items array after addItem(item)
addItem(items, item) ==
    IF Len(items) = 0
    THEN IF item.type \in {"hobby", "wellness", "break"} THEN items ELSE Append(items, item)
    ELSE LET last == items[Len(items)]
             isCurrentBreak == item.type \in BREAK_TYPES
             isLastBreak == last.type \in BREAK_TYPES
         IN  IF isCurrentBreak /\ isLastBreak
             THEN IF item.type = last.type
                  THEN [items EXCEPT ![Len(items)].duration = @ + item.duration]
                  ELSE items
             ELSE Append(items, item)

\* the locals of the schedule memo, before the loop
InitRunB(day) ==
    LET userDayStart == toMinutes(startTime.hour, startTime.minute, startTime.period)
        userDayEnd == toMinutes(endTime.hour, endTime.minute, endTime.period)
        evs == activeDayEventsOf(calendarEvents, day)
        start0 == Max(DAY_START_LIMIT, userDayStart)
        end0 == Min(DAY_END_LIMIT, userDayEnd)
        dayStartMins == IF Len(evs) > 0
                        THEN Min(start0, Max(DAY_START_LIMIT, evs[1].startMins))
                        ELSE start0
        dayEndMins == IF Len(evs) > 0
                      THEN Max(end0, Min(DAY_END_LIMIT, evs[Len(evs)].endMins))
                      ELSE end0
    IN  [ items |-> <<>>,
          activeDayEvents |-> evs,
          dayStartMins |-> dayStartMins,
          dayEndMins |-> dayEndMins,
          remainingFocusMinutes |-> Max(0, focusGoal * 60 - totalMeetingsMinutes(evs)),
          currentPeak |-> peakRangesB(peakWindow),
          currentTime |-> dayStartMins,
          safety |-> 0,
          hasBreakfastBeenAdded |-> FALSE,
          hasLunchBeenAdded |->
              \E i \in 1..Len(evs) : getEventTypeFromSummary(evs[i].summary) = "lunch",
          isMorningStart |-> dayStartMins >= 420 /\ dayStartMins < 540 ]

\* index of activeDayEvents.find(e => e.startMins <= currentTime && e.endMins > currentTime)
currentEventIdx(r) ==
    LET hits == {i \in 1..Len(r.activeDayEvents) :
                    /\ r.activeDayEvents[i].startMins <= r.currentTime
                    /\ r.activeDayEvents[i].endMins > r.currentTime}
    IN  IF hits = {} THEN 0 ELSE CHOOSE i \in hits : \A j \in hits : i <= j

\* index of activeDayEvents.find(e => e.startMins > currentTime)
nextEventIdx(r) ==
    LET hits == {i \in 1..Len(r.activeDayEvents) :
                    r.activeDayEvents[i].startMins > r.currentTime}
    IN  IF hits = {} THEN 0 ELSE CHOOSE i \in hits : \A j \in hits : i <= j

gapEndOf(r) ==
    IF nextEventIdx(r) # 0
    THEN Min(r.activeDayEvents[nextEventIdx(r)].startMins, r.dayEndMins)
    ELSE r.dayEndMins

isPeakAt(r) == r.currentTime >= r.currentPeak[1] /\ r.currentTime <= r.currentPeak[2]

\* which branch of the loop body of the schedule memo the next iteration takes
BranchB(r) ==
    IF ~(r.currentTime < r.dayEndMins /\ r.safety < 150) THEN "exit"
    ELSE IF /\ r.isMorningStart /\ ~r.hasBreakfastBeenAdded
            /\ r.currentTime >= 420 /\ r.currentTime < 540
            /\ currentEventIdx(r) = 0
         THEN "breakfast"
    ELSE IF /\ ~r.hasLunchBeenAdded /\ r.currentTime >= 720 /\ r.currentTime < 840
            /\ currentEventIdx(r) = 0
         THEN "lunch"
    ELSE IF currentEventIdx(r) # 0 THEN "event"
    ELSE IF gapEndOf(r) - r.currentTime > 0
         THEN IF r.remainingFocusMinutes > 0 /\ gapEndOf(r) - r.currentTime >= 20 THEN "focus"
              ELSE IF gapEndOf(r) - r.currentTime > 90 /\ Len(r.items) > 0 THEN "hobby"
              ELSE "break"
    ELSE "jump"

breakfastStepB(r) ==
    [r EXCEPT !.safety = @ + 1,
              !.items = addItem(@, ScheduleItem(<<"breakfast-mandatory">>, "lunch",
                                    "Fuel & Prep: Breakfast", "Nutritional anchor",
                                    r.currentTime, 30)),
              !.currentTime = @ + 30,
              !.hasBreakfastBeenAdded = TRUE]

lunchStepB(r) ==
    [r EXCEPT !.safety = @ + 1,
              !.items = addItem(@, ScheduleItem(<<"lunch-auto">>, "lunch", "Lunch Break",
                                    "Mid-day reset", r.currentTime, 45)),
              !.currentTime = @ + 45,
              !.hasLunchBeenAdded = TRUE]

eventStepB(r) ==
    LET currentEvent == r.activeDayEvents[currentEventIdx(r)]
    IN  [r EXCEPT !.safety = @ + 1,
                  !.items = addItem(@, ScheduleItem(
                                <<"event", currentEvent.startMins, currentEvent.summary>>,
                                getEventTypeFromSummary(currentEvent.summary),
                                currentEvent.summary, Undefined,
                                currentEvent.startMins, currentEvent.durationMinutes)),
                  !.currentTime = currentEvent.endMins]

focusStepB(r) ==
    LET gapEnd == gapEndOf(r)
        gapDuration == gapEnd - r.currentTime
        isPeak == isPeakAt(r)
        focusBlock == IF isPeak THEN Min(90, Min(gapDuration, r.remainingFocusMinutes))
                      ELSE Min(45, Min(gapDuration, r.remainingFocusMinutes))
        focusItem == ScheduleItem(<<"focus", r.currentTime>>, "focus",
                        IF isPeak THEN "Peak Window Deep Work" ELSE "Focus Sprint",
                        IF isPeak THEN "High-impact productivity" ELSE "Execution focus",
                        r.currentTime, focusBlock)
        afterFocus == r.currentTime + focusBlock
        wellnessDuration == IF isPeak THEN 15 ELSE 10
        withWellness == afterFocus < gapEnd /\ gapEnd - afterFocus >= wellnessDuration
        wellItem == ScheduleItem(<<"well", afterFocus>>, "wellness", "Wellness Buffer",
                        "Hydrate & Context Reset", afterFocus, wellnessDuration)
        items1 == addItem(r.items, focusItem)
    IN  [r EXCEPT !.safety = @ + 1,
                  !.items = IF withWellness THEN addItem(items1, wellItem) ELSE items1,
                  !.currentTime = IF withWellness THEN afterFocus + wellnessDuration
                                  ELSE afterFocus,
                  !.remainingFocusMinutes = @ - focusBlock]

hobbyStepB(r) ==
    [r EXCEPT !.safety = @ + 1,
              !.items = addItem(@, ScheduleItem(<<"hobby", r.currentTime>>, "hobby",
                                    "Creative Hobby Break", "Personal exploration",
                                    r.currentTime, settings.hobbyBreakDuration)),
              !.currentTime = @ + settings.hobbyBreakDuration]

breakStepB(r) ==
    LET breakDur == Min(gapEndOf(r) - r.currentTime, settings.shortBreakDuration)
    IN  [r EXCEPT !.safety = @ + 1,
                  !.items = addItem(@, ScheduleItem(<<"break", r.currentTime>>, "break",
                                        "Mental Pivot", "Strategic pause",
                                        r.currentTime, breakDur)),
                  !.currentTime = gapEndOf(r)]

\* items.sort((a, b) => a.startTimeMins - b.startTimeMins), a stable sort
RECURSIVE InsertByStartTime(_, _)
InsertByStartTime(s, e) ==
    IF s = <<>> THEN <<e>>
    ELSE IF Head(s).startTimeMins <= e.startTimeMins
         THEN <<Head(s)>> \o InsertByStartTime(Tail(s), e)
    ELSE <<e>> \o s

RECURSIVE SortItems(_)
SortItems(s) ==
    IF s = <<>> THEN <<>>
    ELSE InsertByStartTime(SortItems(SubSeq(s, 1, Len(s) - 1)), s[Len(s)])

InitB ==
    /\ startTime \in StartTimesB
    /\ endTime \in EndTimesB
    /\ focusGoal \in GoalValues
    /\ peakWindow \in PeakWindowsB
    /\ shortBreak = 5
    /\ longBreak = 30
    /\ calendarEvents \in EventListsB(MaxEvents)
    /\ selectedDayIndex = 1
    /\ statsMode = "daily"
    /\ completedSessions = {}
    /\ activeSessionId = Null
    /\ manualAdjustment = [d \in Days |-> 0]
    /\ newSessionIds = {}
    /\ schedule = <<>>
    /\ pendingNew = {}
    /\ ops = 0
    /\ memo = NoMemo
    /\ settings = DefaultSettings
    /\ activeItemIndex = NoItem
    /\ timeLeft = 0
    /\ isPaused = TRUE
    /\ completedIds = {}
    /\ RestDefaults
    /\ pc = "sweep"
    /\ run = InitRunB(1)

BreakfastB ==
    /\ pc = "sweep" /\ BranchB(run) = "breakfast"
    /\ run' = breakfastStepB(run)
    /\ UNCHANGED <<props, selectedDayIndex, schedule, pc, viewA, viewB, rest>>

LunchB ==
    /\ pc = "sweep" /\ BranchB(run) = "lunch"
    /\ run' = lunchStepB(run)
    /\ UNCHANGED <<props, selectedDayIndex, schedule, pc, viewA, viewB, rest>>

EventB ==
    /\ pc = "sweep" /\ BranchB(run) = "event"
    /\ run' = eventStepB(run)
    /\ UNCHANGED <<props, selectedDayIndex, schedule, pc, viewA, viewB, rest>>

FocusB ==
    /\ pc = "sweep" /\ BranchB(run) = "focus"
    /\ run' = focusStepB(run)
    /\ UNCHANGED <<props, selectedDayIndex, schedule, pc, viewA, viewB, rest>>

HobbyB ==
    /\ pc = "sweep" /\ BranchB(run) = "hobby"
    /\ run' = hobbyStepB(run)
    /\ UNCHANGED <<props, selectedDayIndex, schedule, pc, viewA, viewB, rest>>

BreakB ==
    /\ pc = "sweep" /\ BranchB(run) = "break"
    /\ run' = breakStepB(run)
    /\ UNCHANGED <<props, selectedDayIndex, schedule, pc, viewA, viewB, rest>>

\* loop exit and "return items.sort(...)": the memo's value becomes schedule
ReturnB ==
    /\ pc = "sweep" /\ BranchB(run) = "exit"
    /\ schedule' = SortItems(run.items)
    /\ pc' = "idle"
    /\ UNCHANGED <<props, selectedDayIndex, run, viewA, viewB, rest>>

\* day button: onClick={() => setSelectedDayIndex(i)}
SelectDayB(i) ==
    /\ pc = "idle" /\ i # selectedDayIndex
    /\ selectedDayIndex' = i
    /\ pc' = "sweep"
    /\ run' = InitRunB(i)
    /\ UNCHANGED <<props, schedule, viewA, viewB, rest>>

\* the two sliders of the settings panel
SetShortBreakB(v) ==
    /\ pc = "idle" /\ v # settings.shortBreakDuration
    /\ settings' = [settings EXCEPT !.shortBreakDuration = v]
    /\ pc' = "sweep"
    /\ run' = InitRunB(selectedDayIndex)
    /\ UNCHANGED <<props, selectedDayIndex, schedule, viewA,
                   activeItemIndex, timeLeft, isPaused, completedIds, rest>>

SetHobbyBreakB(v) ==
    /\ pc = "idle" /\ v # settings.hobbyBreakDuration
    /\ settings' = [settings EXCEPT !.hobbyBreakDuration = v]
    /\ pc' = "sweep"
    /\ run' = InitRunB(selectedDayIndex)
    /\ UNCHANGED <<props, selectedDayIndex, schedule, viewA,
                   activeItemIndex, timeLeft, isPaused, completedIds, rest>>

NextB ==
    \/ BreakfastB
    \/ LunchB
    \/ EventB
    \/ FocusB
    \/ HobbyB
    \/ BreakB
    \/ ReturnB
    \/ \E i \in Days : SelectDayB(i)
    \/ \E v \in ShortBreakChoices : SetShortBreakB(v)
    \/ \E v \in HobbyBreakChoices : SetHobbyBreakB(v)

SpecB == InitB /\ [][NextB]_vars

\* the else branch of "if (gapDuration > 0)" is never taken
NoJumpB == pc = "sweep" => BranchB(run) # "jump"

ActiveEventsB == activeDayEventsOf(calendarEvents, selectedDayIndex)

\* the contract of the generator on the events of the active date
ValidInputsB ==
    /\ DayStartMins < DayEndMins
    /\ \A i \in 1..Len(ActiveEventsB) :
          /\ ActiveEventsB[i].durationMinutes > 0
          /\ ActiveEventsB[i].startMins >= DayStartMins
          /\ ActiveEventsB[i].endMins <= DayEndMins
    /\ \A i \in 1..Len(ActiveEventsB) : \A j \in 1..Len(ActiveEventsB) :
          i < j => ActiveEventsB[i].endMins <= ActiveEventsB[j].startMins

\* C4: in the returned (start-sorted) list of the part_002 generator, for valid
\* inputs, every block starts at the minute the previous block ends
C4_ContiguousB ==
    (pc = "idle" /\ ValidInputsB) =>
        \A i \in 1..(Len(schedule) - 1) :
            schedule[i].startTimeMins + schedule[i].duration = schedule[i + 1].startTimeMins

\* ------------------------------------------------------------------------
\* Degenerate inputs: zero focus goal, zero-width day
\* ------------------------------------------------------------------------
\* minute m lies inside a block of s that is a meeting or a rest block (part_001)
CoveredA(s, m) ==
    \E i \in 1..Len(s) :
        /\ s[i].type = "meeting" \/ isBreakType(s[i].type)
        /\ StartOf(s[i]) <= m /\ m < EndOf(s[i])

\* the same for the items of part_002
CoveredB(s, m) ==
    \E i \in 1..Len(s) :
        /\ s[i].type = "meeting" \/ s[i].type \in BREAK_TYPES
        /\ s[i].startTimeMins <= m /\ m < s[i].startTimeMins + s[i].duration

\* C11 (part_001 half): with an effective goal of 0 the schedule has no focus
\* block and every minute of the day lies in a meeting or a rest block
C11_RestFillsDay ==
    (pc = "idle" /\ EffectiveGoalMins = 0 /\ DayStartMins < DayEndMins /\ shortBreak >= 1) =>
        /\ FocusCount(schedule) = 0
        /\ \A m \in DayStartMins..(DayEndMins - 1) : CoveredA(schedule, m)

\* C11 (part_002 half): with a focus goal of 0 the schedule memo has no focus
\* item and, for valid inputs, every minute of the day lies in a meeting or a
\* rest item
C11_RestFillsDayB ==
    (pc = "idle" /\ focusGoal = 0 /\ ValidInputsB) =>
        /\ \A i \in 1..Len(schedule) : schedule[i].type # "focus"
        /\ \A m \in DayStartMins..(DayEndMins - 1) : CoveredB(schedule, m)

\* ------------------------------------------------------------------------
\* generateSchedule (part_001) over props that DashboardView takes unchecked:
\* TimePicker hands on free text for hour and minute, break durations are plain
\* numbers, and imported events may end at or before their start
\* ------------------------------------------------------------------------
StartTimesW == {Clock(8, 0, "AM"), Clock(1, 0, "PM"), Clock(6, 0, "PM"), Clock(0, 30, "AM")}

EndTimesW == {Clock(1, 0, "PM"), Clock(6, 0, "PM"), Clock(1, 70, "PM")}

GoalValuesW == {0, 2}

BreakSettingsW == {<<5, 30>>, <<5, 0>>, <<1, -10>>}

EventPoolW ==
    << Event("Standup", 1, 10, 0, 11, 0, 60),
       Event("Ping", 1, 12, 0, 12, 0, 0),
       Event("Rewind", 1, 13, 0, 12, 30, -30),
       Event("Client call", 1, 13, 0, 14, 0, 60) >>

RECURSIVE ListOfW(_)
ListOfW(S) ==
    IF S = {} THEN <<>>
    ELSE LET i == CHOOSE x \in S : \A y \in S : x >= y
         IN  <<EventPoolW[i]>> \o ListOfW(S \ {i})

EventListsW(n) ==
    {ListOfW(S) : S \in {T \in SUBSET (1..Len(EventPoolW)) : Cardinality(T) <= n}}

InitW ==
    /\ startTime \in StartTimesW
    /\ endTime \in EndTimesW
    /\ focusGoal \in GoalValuesW
    /\ peakWindow \in PeakWindows
    /\ \E bs \in BreakSettingsW : shortBreak = bs[1] /\ longBreak = bs[2]
    /\ calendarEvents \in EventListsW(MaxEvents)
    /\ selectedDayIndex = 1
    /\ statsMode = "daily"
    /\ completedSessions = {}
    /\ activeSessionId = Null
    /\ manualAdjustment = [d \in Days |-> 0]
    /\ newSessionIds = {}
    /\ schedule = <<>>
    /\ pendingNew = {}
    /\ ops = 0
    /\ memo = NoMemo
    /\ settings = DefaultSettings
    /\ activeItemIndex = NoItem
    /\ timeLeft = 0
    /\ isPaused = TRUE
    /\ completedIds = {}
    /\ RestDefaults
    /\ pc = "sweep"
    /\ run = InitRun(1, Undefined, focusGoal, manualAdjustment, newSessionIds)

\* one synchronous call of generateSchedule: the loop body and the return
NextW ==
    \/ LunchAnchor
    \/ MeetingStep
    \/ BreakStep
    \/ FocusStep
    \/ HobbyStep
    \/ Return

\* the call runs to completion on the JavaScript thread without interleaving
SpecW == InitW /\ [][NextW]_vars /\ WF_vars(NextW)

\* C12 (part_001 half): a day whose start equals its end gives an empty list
C12_EmptyDay == (pc = "idle" /\ DayStartMins = DayEndMins) => schedule = <<>>

\* C12 (part_002 half): a day whose configured start equals its configured end
\* gives an empty list, whatever the events of the date
C12_EmptyDayB == (pc = "idle" /\ DayStartMins = DayEndMins) => schedule = <<>>

isExertion(t) == t \in {"focus", "meeting"}

\* C13: for valid inputs no focus or meeting block of the returned list is
\* immediately followed by another focus or meeting block
C13_NoConsecutiveExertion ==
    (pc = "idle" /\ ValidInputs) =>
        \A i \in 1..(Len(schedule) - 1) :
            ~(isExertion(schedule[i].type) /\ isExertion(schedule[i + 1].type))

LunchBlocks(s) == {i \in 1..Len(s) : s[i].type = "break" /\ s[i].label = "Lunch Break"}

\* C14: a returned list has at most one 'Lunch Break' block; it starts at a
\* minute in [780, 840) and the block just before it, if any, is not a rest block
C14_LunchAnchor ==
    pc = "idle" =>
        /\ Cardinality(LunchBlocks(schedule)) <= 1
        /\ \A i \in LunchBlocks(schedule) :
              /\ StartOf(schedule[i]) >= 780 /\ StartOf(schedule[i]) < 840
              /\ i > 1 => ~isBreakType(schedule[i - 1].type)

C14_Witness ==
    /\ pc = "idle"
    /\ \E i \in LunchBlocks(schedule) :
          /\ i > 1 /\ schedule[i - 1].type = "focus"
          /\ StartOf(schedule[i]) > 780
          /\ i < Len(schedule)

\* one iteration of the loop makes progress: it emits a positive-duration block
\* and advances the cursor, or it consumes an event or the lunch flag
Progress(r, q) ==
    \/ /\ Len(q.items) = Len(r.items) + 1
       /\ q.items[Len(q.items)].duration > 0
       /\ q.currentTime > r.currentTime
    \/ Len(q.dayEvents) < Len(r.dayEvents)
    \/ ~r.hasLongBreakAnchor /\ q.hasLongBreakAnchor

\* C15: the sweep loop terminates: the cursor never decreases, every iteration
\* makes progress, and the call returns
C15_Terminates ==
    /\ [][(pc = "sweep" /\ pc' = "sweep") =>
            (run'.currentTime >= run.currentTime /\ Progress(run, run'))]_vars
    /\ (pc = "sweep") ~> (pc = "idle" /\ run.currentTime >= run.dayEndMins)

C15_Witness ==
    /\ pc = "idle"
    /\ DayStartMins < DayEndMins
    /\ longBreak <= 0 /\ run.hasLongBreakAnchor
    /\ \E i \in 1..Len(ActiveEvents) : ActiveEvents[i].durationMinutes <= 0
    /\ run.dayEvents = <<>>
    /\ Len(schedule) >= 3

ValidClock(c) == c.hour \in 1..12 /\ c.minute \in 0..59 /\ c.period \in {"AM", "PM"}

ContractViolated ==
    \/ ~ValidClock(startTime)
    \/ ~ValidClock(endTime)
    \/ DayStartMins > DayEndMins

\* C16: on inputs that violate the contract (a clock time with hour 0 or above
\* 12 or minute 60 or above, or a day start later than the day end) the call is
\* rejected: it never returns a schedule, empty or not
C16_RejectsBadInput == ContractViolated => pc # "idle"

\* ------------------------------------------------------------------------
\* Clock conversion: toMinutes and formatMinutes on the 12-hour domain
\* ------------------------------------------------------------------------
AllClocks == {Clock(h, m, p) : h \in 1..12, m \in 0..59, p \in {"AM", "PM"}}

InitC ==
    /\ startTime \in AllClocks
    /\ endTime = Clock(6, 0, "PM")
    /\ focusGoal = 7
    /\ peakWindow = "Morning"
    /\ shortBreak = 5
    /\ longBreak = 30
    /\ calendarEvents = <<>>
    /\ selectedDayIndex = 1
    /\ statsMode = "daily"
    /\ completedSessions = {}
    /\ activeSessionId = Null
    /\ manualAdjustment = [d \in Days |-> 0]
    /\ newSessionIds = {}
    /\ schedule = <<>>
    /\ pendingNew = {}
    /\ ops = 0
    /\ memo = NoMemo
    /\ settings = DefaultSettings
    /\ activeItemIndex = NoItem
    /\ timeLeft = 0
    /\ isPaused = TRUE
    /\ completedIds = {}
    /\ RestDefaults
    /\ pc = "clock"
    /\ run = [mins |-> Null, text |-> Null]

\* const userDayStart = toMinutes(startTime.hour, startTime.minute, startTime.period)
ConvertStart ==
    /\ pc = "clock"
    /\ run' = [run EXCEPT !.mins = toMinutes(startTime.hour, startTime.minute, startTime.period)]
    /\ pc' = "minutes"
    /\ UNCHANGED <<props, selectedDayIndex, schedule, viewA, viewB, rest>>

\* startTime: formatMinutes(currentTime) of an item placed at the day start
FormatStart ==
    /\ pc = "minutes"
    /\ run' = [run EXCEPT !.text = formatMinutes(run.mins)]
    /\ pc' = "text"
    /\ UNCHANGED <<props, selectedDayIndex, schedule, viewA, viewB, rest>>

NextC == ConvertStart \/ FormatStart

SpecC == InitC /\ [][NextC]_vars

\* C17: for hour 1..12, minute 0..59 and either period, toMinutes returns
\* (hour mod 12) * 60 + minute, plus 720 for PM; the result lies in 0..1439,
\* 12:00 AM gives 0 and 12:00 PM gives 720
C17_ToMinutes ==
    pc \in {"minutes", "text"} =>
        /\ run.mins = (startTime.hour % 12) * 60 + startTime.minute
                        + (IF startTime.period = "PM" THEN 720 ELSE 0)
        /\ run.mins \in 0..1439
        /\ startTime = Clock(12, 0, "AM") => run.mins = 0
        /\ startTime = Clock(12, 0, "PM") => run.mins = 720

C17_Witness == pc = "minutes" /\ startTime = Clock(12, 0, "AM") /\ run.mins = 0

\* the period a formatted suffix stands for
PeriodOf(suffix) == IF suffix = "am" THEN "AM" ELSE "PM"

\* C18: formatting toMinutes(hour, minute, period) with formatMinutes gives back
\* the hour, the minute and the period, and no other clock time of the 12-hour
\* domain maps to the same minute of day
C18_RoundTrip ==
    pc = "text" =>
        /\ run.text[1] = startTime.hour
        /\ run.text[2] = startTime.minute
        /\ PeriodOf(run.text[3]) = startTime.period
        /\ \A c \in AllClocks :
              c # startTime => toMinutes(c.hour, c.minute, c.period) # run.mins

C18_Witness ==
    pc = "text" /\ startTime = Clock(12, 30, "PM") /\ run.text = <<12, 30, "pm">>

KnownWindows == {"Morning", "Afternoon", "Evening", "Late Night"}

\* C19: a call with a peak window name outside the four known names returns
\* having used the minute range of 'Morning'
C19_FallbackIsMorning ==
    (pc = "idle" /\ peakWindow \notin KnownWindows) => run.peak = peakRanges("Morning")

\* minute m lies in the half-open range of window w
InWindow(w, m) == m >= peakRangesB(w)[1] /\ m < peakRangesB(w)[2]

\* C20: in the schedule memo of part_002 no focus item is longer than 90
\* minutes, and a focus item longer than 45 minutes starts at a minute inside
\* the half-open range of the selected window
C20_PeakCap ==
    pc = "idle" =>
        \A i \in 1..Len(schedule) :
            schedule[i].type = "focus" =>
                /\ schedule[i].duration <= 90
                /\ schedule[i].duration > 45 => InWindow(peakWindow, schedule[i].startTimeMins)

\* ------------------------------------------------------------------------
\* Calendar import: the END:VEVENT step of parseICS in src/App.tsx and in
\* src/unnamed/part_000 (events without RRULE)
\* ------------------------------------------------------------------------
\* the state of the dashboards while the setup view is shown
DashboardDefaults ==
    /\ selectedDayIndex = 1
    /\ statsMode = "daily"
    /\ completedSessions = {}
    /\ activeSessionId = Null
    /\ manualAdjustment = [d \in Days |-> 0]
    /\ newSessionIds = {}
    /\ schedule = <<>>
    /\ pendingNew = {}
    /\ ops = 0
    /\ memo = NoMemo
    /\ settings = DefaultSettings
    /\ activeItemIndex = NoItem
    /\ timeLeft = 0
    /\ isPaused = TRUE
    /\ completedIds = {}
    /\ RestDefaults

\* the props as the setup view first holds them
SetupDefaults ==
    /\ startTime = Clock(8, 0, "AM")
    /\ endTime = Clock(6, 0, "PM")
    /\ focusGoal = 7
    /\ peakWindow = "Morning"
    /\ shortBreak = 5
    /\ longBreak = 30

\* DTSTART / DTEND values as <<date, minute of day>>; a missing DTEND is Null
StampMinutes == {0, 540, 570, 600, 1410}

VEvents ==
    [summary : {"Standup"},
     dtStart : {1} \X StampMinutes,
     dtEnd : {Null} \cup (Days \X StampMinutes)]

\* the event pushed by parseICS of src/App.tsx
parseICSApp(ev) ==
    LET startH == ev.dtStart[2] \div 60
        startM == ev.dtStart[2] % 60
        endH == IF ev.dtEnd # Null THEN ev.dtEnd[2] \div 60 ELSE (startH + 1) % 24
        endM == IF ev.dtEnd # Null THEN ev.dtEnd[2] % 60 ELSE startM
        startTotal == startH * 60 + startM
        endTotal == endH * 60 + endM
                    + (IF ev.dtEnd # Null /\ ev.dtEnd[1] # ev.dtStart[1] THEN 1440 ELSE 0)
        diff == Max(0, endTotal - startTotal)
    IN  Event(ev.summary, ev.dtStart[1], startH, startM, endH, endM,
              IF diff = 0 THEN 60 ELSE diff)

\* Date.getTime() in minutes
getTime(stamp) == (stamp[1] - 1) * 1440 + stamp[2]

\* the event pushed by parseICS of src/unnamed/part_000
parseICSSetup(ev) ==
    LET start == getTime(ev.dtStart)
        end == IF ev.dtEnd # Null THEN getTime(ev.dtEnd) ELSE start + 30
        duration == end - start
    IN  Event(ev.summary, ev.dtStart[1], (start % 1440) \div 60, start % 60,
              (end % 1440) \div 60, end % 60, duration)

InitI ==
    /\ SetupDefaults
    /\ DashboardDefaults
    /\ calendarEvents = <<>>
    /\ run \in VEvents
    /\ pc = "vevent"

EndVEventApp ==
    /\ pc = "vevent"
    /\ calendarEvents' = Append(calendarEvents, parseICSApp(run))
    /\ pc' = "importedApp"
    /\ UNCHANGED <<startTime, endTime, focusGoal, peakWindow, shortBreak, longBreak,
                   selectedDayIndex, schedule, run, viewA, viewB, rest>>

EndVEventSetup ==
    /\ pc = "vevent"
    /\ calendarEvents' = Append(calendarEvents, parseICSSetup(run))
    /\ pc' = "importedSetup"
    /\ UNCHANGED <<startTime, endTime, focusGoal, peakWindow, shortBreak, longBreak,
                   selectedDayIndex, schedule, run, viewA, viewB, rest>>

NextI == EndVEventApp \/ EndVEventSetup

SpecI == InitI /\ [][NextI]_vars

\* C21 (src/App.tsx half): every event imported by parseICS of App.tsx has a
\* positive duration
C21_PositiveDurationApp ==
    pc = "importedApp" =>
        \A i \in 1..Len(calendarEvents) : calendarEvents[i].durationMinutes > 0

\* C21: every event imported by either parser has a positive duration, also
\* when DTEND is missing or at or before DTSTART
C21_PositiveDuration ==
    \A i \in 1..Len(calendarEvents) : calendarEvents[i].durationMinutes > 0

\* ------------------------------------------------------------------------
\* Goal tracker and handleAdjustGoal (part_001)
\* ------------------------------------------------------------------------
RECURSIVE MeetingTotal(_)
MeetingTotal(s) ==
    IF s = <<>> THEN 0
    ELSE (IF Head(s).type = "meeting" THEN Head(s).duration ELSE 0) + MeetingTotal(Tail(s))

\* scheduled focus minutes minus the goal, as the claim defines them
ScheduledMinusGoal == FocusTotal(schedule) + MeetingTotal(schedule) - focusGoal * 60

\* C22: in daily mode the tracker counts the durations of the focus and meeting
\* blocks of the schedule; the day is 'match' exactly when the distance to
\* focusGoal * 60 is below 15, 'under' when at least 15 below, 'over' when at
\* least 15 above, and an adjustment is made only when the day is not 'match'
C22_GoalTracker ==
    /\ []((pc = "idle" /\ statsMode = "daily") =>
            /\ focusMinsOf(schedule) = FocusTotal(schedule) + MeetingTotal(schedule)
            /\ goalDiff = "match" <=> Abs(ScheduledMinusGoal) < 15
            /\ goalDiff = "under" <=> ScheduledMinusGoal <= -15
            /\ goalDiff = "over" <=> ScheduledMinusGoal >= 15)
    /\ [][manualAdjustment' # manualAdjustment => Abs(ScheduledMinusGoal) >= 15]_vars

C22_Witness ==
    /\ pc = "idle" /\ statsMode = "daily"
    /\ goalDiff = "match"
    /\ MeetingTotal(schedule) > 0 /\ FocusTotal(schedule) > 0
    /\ manualAdjustment[activeDay] # 0

\* the least integer n with n >= (mins + halves * 30) / 60
CeilHours(mins, halves) ==
    CHOOSE n \in 0..48 : 60 * n >= mins + halves * 30 /\ 60 * (n - 1) < mins + halves * 30

\* the change of the active date's adjustment that the claim prescribes
PrescribedChange ==
    IF ScheduledMinusGoal < 0
    THEN IF 0 - ScheduledMinusGoal < 60 THEN 1 ELSE CeilHours(0 - ScheduledMinusGoal, 1)
    ELSE 0 - CeilHours(ScheduledMinusGoal, 0)

\* C23: a step of handleAdjustGoal changes the adjustment of the active date
\* by the prescribed amount (at least one hour up for 'add') and leaves the
\* adjustments of the other dates, the focus goal, the calendar events, the
\* completed sessions and the selected date unchanged
C23_AdjustFrame ==
    [][manualAdjustment' # manualAdjustment =>
        /\ manualAdjustment'[activeDay] = manualAdjustment[activeDay] + PrescribedChange
        /\ ScheduledMinusGoal < 0 => manualAdjustment'[activeDay] >= manualAdjustment[activeDay] + 1
        /\ \A d \in Days \ {activeDay} : manualAdjustment'[d] = manualAdjustment[d]
        /\ UNCHANGED <<props, completedSessions, newSessionIds, selectedDayIndex, statsMode,
                       activeSessionId, schedule>>]_vars

C23_Witness ==
    /\ pc = "sweep" /\ run.items = <<>>
    /\ activeDay = 2
    /\ manualAdjustment[2] >= 2
    /\ manualAdjustment[1] = 0

\* ------------------------------------------------------------------------
\* DashboardView (part_002): the block timer, on days short enough to
\* enumerate every set of completed blocks
\* ------------------------------------------------------------------------
\* one iteration of the while loop of the schedule memo
sweepStepB(r) ==
    CASE BranchB(r) = "breakfast" -> breakfastStepB(r)
      [] BranchB(r) = "lunch" -> lunchStepB(r)
      [] BranchB(r) = "event" -> eventStepB(r)
      [] BranchB(r) = "focus" -> focusStepB(r)
      [] BranchB(r) = "hobby" -> hobbyStepB(r)
      [] BranchB(r) = "break" -> breakStepB(r)
      [] OTHER -> [r EXCEPT !.safety = @ + 1, !.currentTime = gapEndOf(r)]

RECURSIVE sweepB(_)
sweepB(r) == IF BranchB(r) = "exit" THEN r.items ELSE sweepB(sweepStepB(r))

\* the value of the schedule memo for the date with index day
generateScheduleB(day) == SortItems(sweepB(InitRunB(day)))

EventListsD == {<<>>, <<EventPoolB[5]>>}

InitD ==
    /\ startTime = Clock(8, 0, "AM")
    /\ endTime = Clock(9, 0, "AM")
    /\ focusGoal \in {0, 1}
    /\ peakWindow = "Morning"
    /\ shortBreak = 5
    /\ longBreak = 30
    /\ calendarEvents \in EventListsD
    /\ DashboardDefaults
    /\ pc = "sweep"
    /\ run = InitRunB(1)

\* the timer effect has a countdown at zero to handle; effects are flushed
\* before the next user event is handled
TimerDue == pc = "idle" /\ timeLeft = 0 /\ activeItemIndex # NoItem /\ ~isPaused

\* toggleTimer(index), index counted from 1; the button is rendered for the
\* blocks of the schedule that are not completed
toggleTimer(index) ==
    /\ pc = "idle" /\ ~TimerDue
    /\ index \in 1..Len(schedule)
    /\ schedule[index].id \notin completedIds
    /\ IF activeItemIndex = index
       THEN /\ isPaused' = ~isPaused
            /\ UNCHANGED <<activeItemIndex, timeLeft>>
       ELSE /\ activeItemIndex' = index
            /\ timeLeft' = schedule[index].duration * 60
            /\ isPaused' = FALSE
    /\ UNCHANGED <<props, selectedDayIndex, schedule, run, pc, viewA, settings, completedIds, rest>>

\* the reset button of the active block: setTimeLeft(item.duration * 60)
ResetTimeLeft ==
    /\ pc = "idle" /\ ~TimerDue
    /\ activeItemIndex # NoItem /\ activeItemIndex \in 1..Len(schedule)
    /\ schedule[activeItemIndex].id \notin completedIds
    /\ timeLeft' = schedule[activeItemIndex].duration * 60
    /\ UNCHANGED <<props, selectedDayIndex, schedule, run, pc, viewA,
                   settings, activeItemIndex, isPaused, completedIds, rest>>

\* the remaining seconds at which a countdown is looked at
TickStops == {0, 1}

\* the setInterval callback setTimeLeft(prev => prev - 1): the firings of an
\* undisturbed stretch of the countdown, down to its last second or to zero
IntervalTick ==
    /\ pc = "idle" /\ ~isPaused /\ timeLeft > 0
    /\ \E t \in TickStops : t < timeLeft /\ timeLeft' = t
    /\ UNCHANGED <<props, selectedDayIndex, schedule, run, pc, viewA,
                   settings, activeItemIndex, isPaused, completedIds, rest>>

\* the else-if branch of the timer effect; reading the id of a block the
\* schedule does not have throws and takes the dashboard down
TimerEffectDone ==
    /\ TimerDue
    /\ IF activeItemIndex \in 1..Len(schedule)
       THEN /\ completedIds' = completedIds \cup {schedule[activeItemIndex].id}
            /\ IF activeItemIndex < Len(schedule)
               THEN /\ activeItemIndex' = activeItemIndex + 1
                    /\ timeLeft' = schedule[activeItemIndex + 1].duration * 60
                    /\ isPaused' = FALSE
               ELSE /\ activeItemIndex' = NoItem
                    /\ isPaused' = TRUE
                    /\ UNCHANGED timeLeft
            /\ UNCHANGED pc
       ELSE /\ pc' = "crashed"
            /\ UNCHANGED <<activeItemIndex, timeLeft, isPaused, completedIds>>
    /\ UNCHANGED <<props, selectedDayIndex, schedule, run, viewA, settings, rest>>

NextD ==
    \/ BreakfastB
    \/ LunchB
    \/ EventB
    \/ FocusB
    \/ HobbyB
    \/ BreakB
    \/ ReturnB
    \/ \E i \in Days : ~TimerDue /\ SelectDayB(i)
    \/ \E v \in ShortBreakChoices : ~TimerDue /\ SetShortBreakB(v)
    \/ \E v \in HobbyBreakChoices : ~TimerDue /\ SetHobbyBreakB(v)
    \/ \E index \in 1..Len(schedule) : toggleTimer(index)
    \/ ResetTimeLeft
    \/ IntervalTick
    \/ TimerEffectDone

SpecD == InitD /\ [][NextD]_vars

IdsOf(s) == {s[i].id : i \in 1..Len(s)}

\* C24: a block shown as completed has an id that no block of another date
\* has, so the completion shown is one of that very block
C24_CompletedOwnDate ==
    pc = "idle" =>
        \A i \in 1..Len(schedule) :
            schedule[i].id \in completedIds =>
                \A d \in Days \ {activeDay} : schedule[i].id \notin IdsOf(generateScheduleB(d))

\* C27: a non-null activeItemIndex is an index of the schedule shown, and the
\* block marked completed when the countdown reaches zero exists
C27_ActiveIndexValid ==
    /\ pc = "idle" => (activeItemIndex # NoItem => activeItemIndex \in 1..Len(schedule))
    /\ pc # "crashed"

\* C25: the first block of a non-empty schedule of part_002 is never of kind
\* hobby, wellness or break
C25_FirstBlockKind ==
    (pc = "idle" /\ Len(schedule) > 0) => schedule[1].type \notin {"hobby", "wellness", "break"}

C25_Witness ==
    /\ pc = "idle" /\ Len(schedule) > 0
    /\ Len(ActiveEventsB) > 0
    /\ getEventTypeFromSummary(ActiveEventsB[1].summary) = "wellness"
    /\ ActiveEventsB[1].startMins = run.dayStartMins
    /\ \A i \in 1..Len(schedule) : schedule[i].label # ActiveEventsB[1].summary

\* ---------------------------------------------------------------------
\* C30: in every schedule part_001's generateSchedule returns, no two
\* focus blocks are adjacent: each focus block is the last block or is
\* followed by a break or a meeting, and each focus block comes directly
\* after a rest block (a break or a hobby block), so never first.
C30_FocusBetweenRests ==
    pc = "idle" =>
        \A i \in 1..Len(schedule) :
            schedule[i].type = "focus" =>
                /\ i > 1
                /\ schedule[i-1].type \in {"break", "hobby"}
                /\ i < Len(schedule) => schedule[i+1].type \in {"break", "meeting"}

\* a returned schedule with two focus blocks, one followed by a break
\* and one by a meeting
C30_Witness ==
    /\ pc = "idle"
    /\ \E i, j \in 1..Len(schedule) :
        /\ i < j /\ j < Len(schedule)
        /\ schedule[i].type = "focus" /\ schedule[i+1].type = "break"
        /\ schedule[j].type = "focus" /\ schedule[j+1].type = "meeting"

\* ---------------------------------------------------------------------
\* SessionTimer (part_001): one instance per block of the schedule, keyed
\* by the block id, with its own timeLeft and isRunning
\* ---------------------------------------------------------------------
durationOf(id) ==
    LET i == CHOOSE k \in 1..Len(schedule) : schedule[k].id = id
    IN  schedule[i].duration

\* useState initial values of the instances mounted for a schedule
mountRunning(s) == [id \in IdsOf(s) |-> FALSE]

mountTimeLeft(s, done) ==
    [id \in IdsOf(s) |->
        LET i == CHOOSE k \in 1..Len(s) : s[k].id = id
        IN  IF id \in done THEN 0 ELSE s[i].duration * 60]

\* the effect with dependencies [isActive, isCompleted], run in the
\* instances for which one of the two changed in the render after a handler;
\* rn is isRunning as that render sees it
syncEffect(rn, active0, active1, done0, done1) ==
    [id \in DOMAIN rn |->
        IF (id = active0) = (id = active1) /\ (id \in done0) = (id \in done1)
        THEN rn[id]
        ELSE IF id = active1 /\ id \notin done1 /\ ~rn[id] THEN TRUE
        ELSE IF id # active1 /\ rn[id] THEN FALSE
        ELSE rn[id]]

\* the effect with dependency [isCompleted]
completedEffectRunning(rn, done0, done1) ==
    [id \in DOMAIN rn |-> IF id \in done1 \ done0 THEN FALSE ELSE rn[id]]

completedEffectTimeLeft(tl, done0, done1) ==
    [id \in DOMAIN tl |-> IF id \in done1 \ done0 THEN 0 ELSE tl[id]]

\* the session handleSessionComplete(id) makes active
nextActiveAfter(id) ==
    LET currentIndex == CHOOSE k \in 1..Len(schedule) : schedule[k].id = id
    IN  IF currentIndex < Len(schedule) THEN schedule[currentIndex + 1].id ELSE Null

\* a countdown at zero that the countdown effect has yet to handle
SessionDue ==
    \E id \in DOMAIN isRunning :
        isRunning[id] /\ sessionTimeLeft[id] = 0 /\ id \notin completedSessions

\* isRunning of all instances once the start button of session id, whose
\* timer is not running, has been pressed: onStart() makes the session the
\* active one, and the sync effect runs where isActive changed
runningAfterStart(id) ==
    syncEffect(isRunning, activeSessionId, id, completedSessions, completedSessions)

InitT ==
    /\ startTime = Clock(8, 0, "AM")
    /\ endTime \in {Clock(9, 0, "AM"), Clock(10, 0, "AM")}
    /\ focusGoal \in {0, 1}
    /\ peakWindow = "Morning"
    /\ shortBreak = 5
    /\ longBreak = 30
    /\ calendarEvents = <<>>
    /\ selectedDayIndex = 1
    /\ statsMode = "daily"
    /\ completedSessions = {}
    /\ activeSessionId = Null
    /\ manualAdjustment = [d \in Days |-> 0]
    /\ newSessionIds = {}
    /\ schedule = <<>>
    /\ pendingNew = {}
    /\ ops = 0
    /\ memo = NoMemo
    /\ settings = DefaultSettings
    /\ activeItemIndex = NoItem
    /\ timeLeft = 0
    /\ isPaused = TRUE
    /\ completedIds = {}
    /\ isRunning = <<>>
    /\ sessionTimeLeft = <<>>
    /\ session = NoSession
    /\ dbSettings = NoSettings
    /\ dbCalendar = NoCalendar
    /\ lastSaved = NoSettings
    /\ isCalendarDirty = FALSE
    /\ saving = NoSave
    /\ pc = "sweep"
    /\ run = InitRun(1, Undefined, focusGoal, manualAdjustment, newSessionIds)

\* the first render: the schedule memo is computed and one SessionTimer is
\* mounted per block
FirstRenderT ==
    /\ pc = "sweep"
    /\ LET s == generateSchedule(selectedDayIndex, Undefined, focusGoal, manualAdjustment,
                                 newSessionIds)
       IN  /\ schedule' = s
           /\ isRunning' = mountRunning(s)
           /\ sessionTimeLeft' = mountTimeLeft(s, completedSessions)
    /\ pc' = "idle"
    /\ UNCHANGED <<props, selectedDayIndex, statsMode, completedSessions, activeSessionId,
                   manualAdjustment, newSessionIds, run, pendingNew, ops, memo, viewB,
                   viewP, viewS>>

\* handleToggle of the instance of session id; the play/pause button is
\* rendered while the session is not completed
handleToggle(id) ==
    /\ pc = "idle" /\ ~SessionDue
    /\ id \in DOMAIN isRunning /\ id \notin completedSessions
    /\ IF ~isRunning[id]
       THEN /\ activeSessionId' = id
            /\ isRunning' = runningAfterStart(id)
       ELSE /\ isRunning' = [isRunning EXCEPT ![id] = FALSE]
            /\ UNCHANGED activeSessionId
    /\ UNCHANGED <<props, selectedDayIndex, statsMode, completedSessions, manualAdjustment,
                   newSessionIds, schedule, run, pc, pendingNew, ops, memo, viewB,
                   sessionTimeLeft, viewP, viewS>>

\* the reset button next to it: setIsRunning(false); setTimeLeft(duration * 60)
resetSession(id) ==
    /\ pc = "idle" /\ ~SessionDue
    /\ id \in DOMAIN isRunning /\ id \notin completedSessions
    /\ isRunning' = [isRunning EXCEPT ![id] = FALSE]
    /\ sessionTimeLeft' = [sessionTimeLeft EXCEPT ![id] = durationOf(id) * 60]
    /\ UNCHANGED <<props, selectedDayIndex, statsMode, completedSessions, activeSessionId,
                   manualAdjustment, newSessionIds, schedule, run, pc, pendingNew, ops,
                   memo, viewB, viewP, viewS>>

\* the button of a completed session: setTimeLeft(duration * 60); onComplete()
restartCompleted(id) ==
    /\ pc = "idle" /\ ~SessionDue
    /\ id \in DOMAIN isRunning /\ id \in completedSessions
    /\ activeSessionId' = nextActiveAfter(id)
    /\ sessionTimeLeft' = [sessionTimeLeft EXCEPT ![id] = durationOf(id) * 60]
    /\ isRunning' = syncEffect(isRunning, activeSessionId, nextActiveAfter(id),
                               completedSessions, completedSessions)
    /\ UNCHANGED <<props, selectedDayIndex, statsMode, completedSessions, manualAdjustment,
                   newSessionIds, schedule, run, pc, pendingNew, ops, memo, viewB,
                   viewP, viewS>>

\* the setInterval callback of a running instance, down to the instance's
\* last second or to zero
SessionTick(id) ==
    /\ id \in DOMAIN isRunning /\ isRunning[id] /\ sessionTimeLeft[id] > 0
    /\ \E t \in TickStops :
        /\ t < sessionTimeLeft[id]
        /\ sessionTimeLeft' = [sessionTimeLeft EXCEPT ![id] = t]
    /\ UNCHANGED <<props, selectedDayIndex, statsMode, completedSessions, activeSessionId,
                   manualAdjustment, newSessionIds, schedule, run, pc, pendingNew, ops,
                   memo, viewB, isRunning, viewP, viewS>>

\* the countdown effect at zero: setIsRunning(false); onComplete(), that is
\* handleSessionComplete(id), and the effects of the render that follows
SessionDone(id) ==
    /\ id \in DOMAIN isRunning
    /\ isRunning[id] /\ sessionTimeLeft[id] = 0 /\ id \notin completedSessions
    /\ completedSessions' = completedSessions \cup {id}
    /\ activeSessionId' = nextActiveAfter(id)
    /\ isRunning' =
        completedEffectRunning(
            syncEffect([isRunning EXCEPT ![id] = FALSE], activeSessionId,
                       nextActiveAfter(id), completedSessions, completedSessions \cup {id}),
            completedSessions, completedSessions \cup {id})
    /\ sessionTimeLeft' = completedEffectTimeLeft(sessionTimeLeft, completedSessions,
                                                  completedSessions \cup {id})
    /\ UNCHANGED <<props, selectedDayIndex, statsMode, manualAdjustment, newSessionIds,
                   schedule, run, pc, pendingNew, ops, memo, viewB, viewP, viewS>>

\* a button of the date selector with the timers on screen: the schedule of
\* another date unmounts the instances and mounts those of its own blocks
SelectDayT(i) ==
    /\ pc = "idle" /\ ~SessionDue
    /\ selectedDayIndex' = i
    /\ statsMode' = "daily"
    /\ activeSessionId' = Null
    /\ IF i # selectedDayIndex
       THEN LET s == generateSchedule(i, Undefined, focusGoal, manualAdjustment,
                                      newSessionIds)
            IN  /\ schedule' = s
                /\ isRunning' = mountRunning(s)
                /\ sessionTimeLeft' = mountTimeLeft(s, completedSessions)
       ELSE /\ isRunning' = syncEffect(isRunning, activeSessionId, Null,
                                       completedSessions, completedSessions)
            /\ UNCHANGED <<schedule, sessionTimeLeft>>
    /\ UNCHANGED <<props, completedSessions, manualAdjustment, newSessionIds, run, pc,
                   pendingNew, ops, memo, viewB, viewP, viewS>>

NextT ==
    \/ FirstRenderT
    \/ \E id \in DOMAIN isRunning : handleToggle(id)
    \/ \E id \in DOMAIN isRunning : resetSession(id)
    \/ \E id \in DOMAIN isRunning : restartCompleted(id)
    \/ \E id \in DOMAIN isRunning : SessionTick(id)
    \/ \E id \in DOMAIN isRunning : SessionDone(id)
    \/ \E i \in Days : SelectDayT(i)

SpecT == InitT /\ [][NextT]_vars

\* C26: whenever the timer of a session that is not completed is not
\* running, pressing its start button makes it run, also when the session
\* is the active session already (paused or reset earlier).
C26_ResumePaused ==
    ~SessionDue =>
        \A id \in DOMAIN isRunning :
            (id \notin completedSessions /\ ~isRunning[id]) => runningAfterStart(id)[id]

\* the same for the sessions that are not the active one
C26_StartInactive ==
    ~SessionDue =>
        \A id \in DOMAIN isRunning :
            (id \notin completedSessions /\ ~isRunning[id] /\ id # activeSessionId)
                => runningAfterStart(id)[id]

\* ---------------------------------------------------------------------
\* AIPlanner (components/AIPlanner.tsx): the voice session and its
\* updateSettings function call; hours, minutes and periods are the
\* strings of TimeValue
\* ---------------------------------------------------------------------
TimeValue(h, m, p) == [hour |-> h, minute |-> m, period |-> p]

ArgNames == {"startHour", "startMinute", "startPeriod", "endHour", "endMinute",
             "endPeriod", "focusGoal", "peakWindow"}

\* values the assistant sends for the fields it names
ArgValues ==
    {[startHour |-> "09", startMinute |-> "30", startPeriod |-> "PM",
      endHour |-> "05", endMinute |-> "45", endPeriod |-> "AM",
      focusGoal |-> g, peakWindow |-> "Evening"] : g \in {0, 4}}

\* fc.args: any subset of the fields, the others left out
UpdateArgs == {[f \in D |-> v[f]] : D \in SUBSET ArgNames, v \in ArgValues}

\* args.f || fallback, for the non-empty strings of ArgValues
orElse(args, f, fallback) == IF f \in DOMAIN args THEN args[f] ELSE fallback

\* the settings after the updateSettings branch of onmessage has handled
\* args; startTime and endTime of the fallbacks are the props of the render
\* in which startSession was called, which the callback closes over
afterUpdate(args) ==
    [startTime |->
        IF {"startHour", "startMinute", "startPeriod"} \cap DOMAIN args # {}
        THEN TimeValue(orElse(args, "startHour", session.startTime.hour),
                       orElse(args, "startMinute", session.startTime.minute),
                       orElse(args, "startPeriod", session.startTime.period))
        ELSE startTime,
     endTime |->
        IF {"endHour", "endMinute", "endPeriod"} \cap DOMAIN args # {}
        THEN TimeValue(orElse(args, "endHour", session.endTime.hour),
                       orElse(args, "endMinute", session.endTime.minute),
                       orElse(args, "endPeriod", session.endTime.period))
        ELSE endTime,
     focusGoal |-> IF "focusGoal" \in DOMAIN args THEN args.focusGoal ELSE focusGoal,
     peakWindow |-> IF "peakWindow" \in DOMAIN args THEN args.peakWindow ELSE peakWindow]

InitP ==
    /\ startTime = TimeValue("08", "00", "AM")
    /\ endTime = TimeValue("06", "00", "PM")
    /\ focusGoal = 7
    /\ peakWindow = "Morning"
    /\ shortBreak = 5
    /\ longBreak = 30
    /\ calendarEvents = <<>>
    /\ DashboardDefaults
    /\ pc = "settings"
    /\ run = <<>>

\* startSession: the callbacks handed to ai.live.connect are created here
startSession ==
    /\ pc = "settings" /\ session = NoSession
    /\ session' = [open |-> TRUE, startTime |-> startTime, endTime |-> endTime]
    /\ UNCHANGED <<props, selectedDayIndex, schedule, run, pc, viewA, viewB, viewT, viewS>>

stopSession ==
    /\ pc = "settings" /\ session # NoSession
    /\ session' = NoSession
    /\ UNCHANGED <<props, selectedDayIndex, schedule, run, pc, viewA, viewB, viewT, viewS>>

\* onmessage with a toolCall whose function call is updateSettings
updateSettings(args) ==
    /\ pc = "settings" /\ session # NoSession
    /\ startTime' = afterUpdate(args).startTime
    /\ endTime' = afterUpdate(args).endTime
    /\ focusGoal' = afterUpdate(args).focusGoal
    /\ peakWindow' = afterUpdate(args).peakWindow
    /\ UNCHANGED <<shortBreak, longBreak, calendarEvents, selectedDayIndex, schedule, run,
                   pc, viewA, viewB, rest>>

NextP ==
    \/ startSession
    \/ stopSession
    \/ \E args \in UpdateArgs : updateSettings(args)

SpecP == InitP /\ [][NextP]_vars

\* the field f of a time value after args has been handled is the named
\* value, or the field's current value when args does not name it
FieldKept(args, after, now, f, name) ==
    after[f] = IF name \in DOMAIN args THEN args[name] ELSE now[f]

\* C28: an updateSettings call changes exactly the fields of the start and
\* of the end time it names and leaves the unnamed hour, minute or period at
\* their current values, at any point of a voice session; focus goal and
\* peak window change only when named.
C28_UpdateFrame ==
    session # NoSession =>
        \A args \in UpdateArgs :
            /\ FieldKept(args, afterUpdate(args).startTime, startTime, "hour", "startHour")
            /\ FieldKept(args, afterUpdate(args).startTime, startTime, "minute", "startMinute")
            /\ FieldKept(args, afterUpdate(args).startTime, startTime, "period", "startPeriod")
            /\ FieldKept(args, afterUpdate(args).endTime, endTime, "hour", "endHour")
            /\ FieldKept(args, afterUpdate(args).endTime, endTime, "minute", "endMinute")
            /\ FieldKept(args, afterUpdate(args).endTime, endTime, "period", "endPeriod")
            /\ "focusGoal" \notin DOMAIN args => afterUpdate(args).focusGoal = focusGoal
            /\ "peakWindow" \notin DOMAIN args => afterUpdate(args).peakWindow = peakWindow

\* the same while the settings are still those the session was started with
C28_FirstUpdateFrame ==
    (session # NoSession /\ session.startTime = startTime /\ session.endTime = endTime) =>
        \A args \in UpdateArgs :
            /\ FieldKept(args, afterUpdate(args).startTime, startTime, "hour", "startHour")
            /\ FieldKept(args, afterUpdate(args).startTime, startTime, "minute", "startMinute")
            /\ FieldKept(args, afterUpdate(args).startTime, startTime, "period", "startPeriod")
            /\ FieldKept(args, afterUpdate(args).endTime, endTime, "hour", "endHour")
            /\ FieldKept(args, afterUpdate(args).endTime, endTime, "minute", "endMinute")
            /\ FieldKept(args, afterUpdate(args).endTime, endTime, "period", "endPeriod")
            /\ "focusGoal" \notin DOMAIN args => afterUpdate(args).focusGoal = focusGoal
            /\ "peakWindow" \notin DOMAIN args => afterUpdate(args).peakWindow = peakWindow

\* ---------------------------------------------------------------------
\* App (part_003): settings and calendar in memory, their copies in the
\* IndexedDB store, and handleSaveAll writing one to the other
\* ---------------------------------------------------------------------
\* at most this many calls of handleSaveAll wait for the store at a time
MaxInFlight == 1

\* the list of events of an import, as allEvents and the store hold it
Calendar(events) == [events |-> events]

ImportedCalendars == {Calendar(<<EventPool[1]>>), Calendar(<<EventPool[5]>>)}

\* the useState initial values of the settings
InitialSettings ==
    [startTime |-> TimeValue("08", "00", "AM"), endTime |-> TimeValue("06", "00", "PM"),
     focusGoal |-> 7, peakWindow |-> "Morning", shortBreak |-> 5, longBreak |-> 30,
     isMuted |-> FALSE]

FocusGoalChoices == {4, 7}

\* the settings object handleSaveAll builds from the current state
currentSettings ==
    [startTime |-> startTime, endTime |-> endTime, focusGoal |-> focusGoal,
     peakWindow |-> peakWindow, shortBreak |-> shortBreak, longBreak |-> longBreak,
     isMuted |-> settings.isMuted]

isSettingsDirty ==
    IF lastSaved # NoSettings
    THEN \/ lastSaved.startTime # startTime
         \/ lastSaved.endTime # endTime
         \/ lastSaved.focusGoal # focusGoal
         \/ lastSaved.peakWindow # peakWindow
         \/ lastSaved.shortBreak # shortBreak
         \/ lastSaved.longBreak # longBreak
         \/ lastSaved.isMuted # settings.isMuted
         \/ isCalendarDirty
    ELSE FALSE

\* the store holds nothing, or what an earlier visit saved
InitS ==
    /\ startTime = InitialSettings.startTime
    /\ endTime = InitialSettings.endTime
    /\ focusGoal = InitialSettings.focusGoal
    /\ peakWindow = InitialSettings.peakWindow
    /\ shortBreak = InitialSettings.shortBreak
    /\ longBreak = InitialSettings.longBreak
    /\ calendarEvents = NoCalendar
    /\ selectedDayIndex = 1
    /\ statsMode = "daily"
    /\ completedSessions = {}
    /\ activeSessionId = Null
    /\ manualAdjustment = [d \in Days |-> 0]
    /\ newSessionIds = {}
    /\ schedule = <<>>
    /\ pendingNew = {}
    /\ ops = 0
    /\ memo = NoMemo
    /\ settings = DefaultSettings
    /\ activeItemIndex = NoItem
    /\ timeLeft = 0
    /\ isPaused = TRUE
    /\ completedIds = {}
    /\ isRunning = <<>>
    /\ sessionTimeLeft = <<>>
    /\ session = NoSession
    /\ dbSettings \in {NoSettings, [InitialSettings EXCEPT !.focusGoal = 4]}
    /\ dbCalendar \in {NoCalendar} \cup ImportedCalendars
    /\ lastSaved = NoSettings
    /\ isCalendarDirty = FALSE
    /\ saving = NoSave
    /\ pc = "loading"
    /\ run = <<>>

calendarLoaded == pc \in {"calendarLoaded", "loaded"}

settingsLoaded == pc \in {"settingsLoaded", "loaded"}

\* loadCalendarFromDB().then(...) of the mount effect
LoadCalendar ==
    /\ ~calendarLoaded
    /\ calendarEvents' = IF dbCalendar # NoCalendar THEN dbCalendar ELSE calendarEvents
    /\ pc' = IF settingsLoaded THEN "loaded" ELSE "calendarLoaded"
    /\ UNCHANGED <<startTime, endTime, focusGoal, peakWindow, shortBreak, longBreak,
                   selectedDayIndex, schedule, run, viewA, viewB, rest>>

\* fetchSettings of the mount effect; `initial` is built from the state of
\* the first render
LoadSettings ==
    /\ ~settingsLoaded
    /\ IF dbSettings # NoSettings
       THEN /\ startTime' = dbSettings.startTime
            /\ endTime' = dbSettings.endTime
            /\ focusGoal' = IF dbSettings.focusGoal # 0 THEN dbSettings.focusGoal ELSE 7
            /\ peakWindow' = dbSettings.peakWindow
            /\ shortBreak' = IF dbSettings.shortBreak # 0 THEN dbSettings.shortBreak ELSE 5
            /\ longBreak' = IF dbSettings.longBreak # 0 THEN dbSettings.longBreak ELSE 30
            /\ settings' = [settings EXCEPT !.isMuted = dbSettings.isMuted]
            /\ lastSaved' = dbSettings
       ELSE /\ lastSaved' = InitialSettings
            /\ UNCHANGED <<startTime, endTime, focusGoal, peakWindow, shortBreak,
                           longBreak, settings>>
    /\ pc' = IF calendarLoaded THEN "loaded" ELSE "settingsLoaded"
    /\ UNCHANGED <<calendarEvents, selectedDayIndex, schedule, run, viewA,
                   activeItemIndex, timeLeft, isPaused, completedIds,
                   viewT, viewP, dbSettings, dbCalendar, isCalendarDirty, saving>>

\* an edit of the settings page: setFocusGoal(v)
EditFocusGoal(v) ==
    /\ v # focusGoal
    /\ focusGoal' = v
    /\ UNCHANGED <<startTime, endTime, peakWindow, shortBreak, longBreak, calendarEvents,
                   selectedDayIndex, schedule, run, pc, viewA, viewB, rest>>

handleEventsParsed(events) ==
    /\ calendarEvents' = events
    /\ isCalendarDirty' = TRUE
    /\ UNCHANGED <<startTime, endTime, focusGoal, peakWindow, shortBreak, longBreak,
                   selectedDayIndex, schedule, run, pc, viewA, viewB, viewT, viewP,
                   dbSettings, dbCalendar, lastSaved, saving>>

handleClearCalendar ==
    /\ calendarEvents' = NoCalendar
    /\ isCalendarDirty' = TRUE
    /\ UNCHANGED <<startTime, endTime, focusGoal, peakWindow, shortBreak, longBreak,
                   selectedDayIndex, schedule, run, pc, viewA, viewB, viewT, viewP,
                   dbSettings, dbCalendar, lastSaved, saving>>

\* handleSaveAll up to its first await: the settings object is built and
\* allEvents is the one of the render the handler belongs to; the views get
\* the handler together with isDirty, and the save is taken to be offered
\* while there is an unsaved change
handleSaveAll ==
    /\ Len(saving) < MaxInFlight /\ isSettingsDirty
    /\ saving' = Append(saving, [step |-> 1, settings |-> currentSettings,
                                 allEvents |-> calendarEvents])
    /\ UNCHANGED <<props, selectedDayIndex, schedule, run, pc, viewA, viewB, viewT, viewP,
                   dbSettings, dbCalendar, lastSaved, isCalendarDirty>>

\* saveSettingsToDB after its initDB: the put of the settings; handleSaveAll
\* goes on to the initDB of the calendar write. The store opens in the
\* order of the requests, so the earliest call still at this step goes first
SaveSettingsPut ==
    /\ \E i \in 1..Len(saving) :
        /\ saving[i].step = 1
        /\ \A j \in 1..(i - 1) : saving[j].step > 1
        /\ dbSettings' = saving[i].settings
        /\ saving' = [saving EXCEPT ![i].step = 2]
    /\ UNCHANGED <<props, selectedDayIndex, schedule, run, pc, viewA, viewB, viewT, viewP,
                   dbCalendar, lastSaved, isCalendarDirty>>

\* saveCalendarToDB or deleteCalendarFromDB after its initDB, and the rest
\* of handleSaveAll: setLastSaved(settings); setIsCalendarDirty(false)
SaveCalendarPut ==
    /\ saving # NoSave /\ Head(saving).step = 2
    /\ dbCalendar' = Head(saving).allEvents
    /\ lastSaved' = Head(saving).settings
    /\ isCalendarDirty' = FALSE
    /\ saving' = Tail(saving)
    /\ UNCHANGED <<props, selectedDayIndex, schedule, run, pc, viewA, viewB, viewT, viewP,
                   dbSettings>>

NextS ==
    \/ LoadCalendar
    \/ LoadSettings
    \/ \E v \in FocusGoalChoices : EditFocusGoal(v)
    \/ \E events \in ImportedCalendars : handleEventsParsed(events)
    \/ handleClearCalendar
    \/ handleSaveAll
    \/ SaveSettingsPut
    \/ SaveCalendarPut

SpecS == InitS /\ [][NextS]_vars

\* the settings a load of the store would put in memory
storedSettings == IF dbSettings # NoSettings THEN dbSettings ELSE InitialSettings

\* nothing to save: the load is over, the page shows no unsaved change and
\* no call of handleSaveAll is waiting for the store
Settled == pc = "loaded" /\ ~isSettingsDirty /\ saving = NoSave

\* C29: whenever the page shows no unsaved change after the initial load
\* and no save is in flight, the settings and the calendar in the store
\* equal the settings and the calendar in memory.
C29_CleanMeansSaved ==
    Settled => (storedSettings = currentSettings /\ dbCalendar = calendarEvents)

\* the settings half of it
C29_SettingsSaved ==
    Settled => storedSettings = currentSettings

====
